---- MODULE Spec2Model ----
(***************************************************************************)
(* Model of chatproai-analyzer-v2.  The website crawler                    *)
(* (src/app/crawler.py): the room-count extractor, the strict chatbot      *)
(* detector, the language and contact detectors and the crawl orchestrator *)
(* with its subpage fallback search.  The analysis pipeline                *)
(* (src/app/pipeline.py) with the outcomes of its four steps, and the job  *)
(* table and handlers of the HTTP interface (src/app/main.py).             *)
(*                                                                         *)
(* Page text is a sequence of whitespace-separated, lower-cased tokens.    *)
(* A regular expression of the pattern library is a sequence of elements,  *)
(* "#" for the capture group (\d+) and a regex fragment for a word; the    *)
(* tables Prefix, Suffix and Full say which fragments match the start,     *)
(* the end or the whole of each token of the vocabulary.                   *)
(***************************************************************************)
EXTENDS Integers, Sequences, FiniteSets, TLC

VARIABLES
    pc,             \* position of the crawl: "start", "subpages", "done"
    url,            \* argument of crawl, as a sequence of URL segments
    analysis,       \* the dict crawl builds and returns (report or error)
    idx,            \* subpages of room_count_subpages the loop has passed
    pages_checked,  \* local of _crawl_subpages_for_room_count
    fetched,        \* history: the URLs requested with requests.get, in order
    last,           \* history: what the latest fetch returned or raised
    home,           \* history: what the extractor returned on the homepage
    exText,         \* extractor check: the page text
    exResult,       \* extractor check: result of _extract_room_count_enhanced
    cbPage,         \* detector check: the parsed page
    cbResult,       \* detector check: result of _detect_chatbot_strict
    lgPage,         \* language check: the lang attributes of the parsed page
    lgResult,       \* language check: result of _detect_languages
    ctHtml,         \* contact check: html_content, as a sequence of fragments
    ctResult,       \* contact check: result of _find_contact_info
    crawler,        \* the attributes of the WebsiteCrawler object
    web,            \* the static site: its answers to the requests
    task,           \* per call of crawl on the object: its locals
    proc,           \* the locals of a call of AnalysisPipeline.process
    analysis_status,\* main.py: the job table, analysis id -> entry
    bg,             \* per job: the position of its background task
    report_request, \* the get_report request being handled, if any
    reply           \* history: the latest response of a handler

vars == <<pc, url, analysis, idx, pages_checked, fetched, last, home,
          exText, exResult, cbPage, cbResult, lgPage, lgResult, ctHtml, ctResult,
          crawler, web, task, proc, analysis_status, bg, report_request, reply>>

crawlVars == <<pc, url, analysis, idx, pages_checked, fetched, last, home>>
exVars == <<exText, exResult>>
cbVars == <<cbPage, cbResult>>
lgVars == <<lgPage, lgResult>>
ctVars == <<ctHtml, ctResult>>
\* the variables of the checks of the other homepage features
objVars == <<crawler, web, task>>
plVars == <<proc>>
apiVars == <<analysis_status, bg, report_request, reply>>
moreVars == <<lgVars, ctVars>>

\* Python's None, for fields that otherwise hold a string.
None == "None"
\* Optional[int]: the empty tuple is None, <<n>> is the integer n.
NoInt == <<>>
SomeInt(n) == <<n>>

(***************************************************************************)
(* Bounds of the model.                                                    *)
(***************************************************************************)
\* phrases per page text in the extractor check
MaxPhrases == 3
\* phrases per page text of a crawled page
CrawlPhrases == 1
\* script elements per page in the detector check
MaxScripts == 2
\* iframe elements per page in the detector check
MaxIframes == 1
\* meta elements per page in the language check
MaxMetas == 2
\* fragments of html_content in the contact check
MaxFragments == 4
\* calls of crawl on one crawler object
MaxCrawls == 2
\* analyses started with POST /api/analyze
MaxJobs == 2

(***************************************************************************)
(* Generic helpers.                                                        *)
(***************************************************************************)
RECURSIVE Flatten(_)
Flatten(ss) == IF ss = <<>> THEN <<>> ELSE Head(ss) \o Flatten(Tail(ss))

SeqsUpTo(S, n) == UNION {[1..k -> S] : k \in 0..n}

(***************************************************************************)
(* int(match): the digit strings of the vocabulary and their values.       *)
(***************************************************************************)
IntOf ==
    ("0" :> 0) @@ ("5" :> 5) @@ ("20" :> 20) @@ ("25" :> 25) @@ ("30" :> 30)
    @@ ("500" :> 500) @@ ("501" :> 501) @@ ("1890" :> 1890)

IsDigits(tok) == tok \in DOMAIN IntOf

(***************************************************************************)
(* The pattern library, in source order.  Each entry is a pattern name and *)
(* the alternatives of its regex, an alternation (?:a|b) being expanded.   *)
(***************************************************************************)
patterns == <<
    [name |-> "basic_zimmer",       alts |-> << <<"#", "zimmer">> >>],
    [name |-> "hotelzimmer",        alts |-> << <<"#", "hotelzimmer">> >>],
    [name |-> "gaestezimmer",       alts |-> << <<"#", "gästezimmer">> >>],
    [name |-> "doppelzimmer",       alts |-> << <<"#", "doppelzimmer">> >>],
    [name |-> "einzelzimmer",       alts |-> << <<"#", "einzelzimmer">> >>],
    [name |-> "komfortable_zimmer", alts |-> << <<"#", "komfortable", "zimmer">> >>],
    [name |-> "gemuetliche_zimmer", alts |-> << <<"#", "gemütliche", "zimmer">> >>],
    [name |-> "moderne_zimmer",     alts |-> << <<"#", "moderne", "zimmer">> >>],
    [name |-> "verfuegen_ueber",    alts |-> << <<"verfügen", "über", "#", "zimmer">> >>],
    [name |-> "bieten",             alts |-> << <<"bieten", "#", "zimmer">> >>],
    [name |-> "insgesamt",          alts |-> << <<"insgesamt", "#", "zimmer">> >>],
    [name |-> "gesamt",             alts |-> << <<"gesamt", "#", "zimmer">> >>],
    [name |-> "zimmer_und_suiten",  alts |-> << <<"#", "zimmer", "und", "suiten">> >>],
    [name |-> "hotel_hat",          alts |-> << <<"hotel", "verfügt", "über", "#", "zimmer">>,
                                                <<"hotel", "hat", "#", "zimmer">>,
                                                <<"hotel", "bietet", "#", "zimmer">>,
                                                <<"hotel", "besitzt", "#", "zimmer">> >>],
    [name |-> "wir_haben",          alts |-> << <<"wir", "verfügen", "über", "#", "zimmer">>,
                                                <<"wir", "haben", "#", "zimmer">>,
                                                <<"wir", "bieten", "#", "zimmer">> >>],
    [name |-> "unser_haus",         alts |-> << <<"unser", "haus", "verfügt", "über", "#", "zimmer">>,
                                                <<"unser", "haus", "hat", "#", "zimmer">>,
                                                <<"unser", "haus", "bietet", "#", "zimmer">> >>],
    [name |-> "basic_rooms",        alts |-> << <<"#", "rooms?">> >>],
    [name |-> "guest_rooms",        alts |-> << <<"#", "guest", "rooms?">> >>],
    [name |-> "hotel_rooms",        alts |-> << <<"#", "hotel", "rooms?">> >>],
    [name |-> "double_rooms",       alts |-> << <<"#", "double", "rooms?">> >>],
    [name |-> "single_rooms",       alts |-> << <<"#", "single", "rooms?">> >>],
    [name |-> "comfortable_rooms",  alts |-> << <<"#", "comfortable", "rooms?">> >>],
    [name |-> "elegant_rooms",      alts |-> << <<"#", "elegant", "rooms?">> >>],
    [name |-> "modern_rooms",       alts |-> << <<"#", "modern", "rooms?">> >>],
    [name |-> "feature",            alts |-> << <<"feature", "#", "rooms?">> >>],
    [name |-> "offer",              alts |-> << <<"offer", "#", "rooms?">> >>],
    [name |-> "total_of",           alts |-> << <<"total", "of", "#", "rooms?">> >>],
    [name |-> "rooms_and_suites",   alts |-> << <<"#", "rooms?", "and", "suites?">> >>],
    [name |-> "our_hotel_has",      alts |-> << <<"our", "hotel", "has", "#", "rooms?">>,
                                                <<"our", "hotel", "features", "#", "rooms?">>,
                                                <<"our", "hotel", "offers", "#", "rooms?">> >>],
    [name |-> "we_have",            alts |-> << <<"we", "have", "#", "rooms?">>,
                                                <<"we", "offer", "#", "rooms?">>,
                                                <<"we", "feature", "#", "rooms?">> >>],
    [name |-> "the_hotel_has",      alts |-> << <<"the", "hotel", "has", "#", "rooms?">>,
                                                <<"the", "hotel", "features", "#", "rooms?">>,
                                                <<"the", "hotel", "offers", "#", "rooms?">> >>],
    [name |-> "einheiten",          alts |-> << <<"#", "einheiten">> >>],
    [name |-> "units",              alts |-> << <<"#", "units?">> >>],
    [name |-> "ferienwohnungen",    alts |-> << <<"#", "ferienwohnungen?">> >>],
    [name |-> "apartments",         alts |-> << <<"#", "apartments?">> >>],
    [name |-> "suites",             alts |-> << <<"#", "suites?">> >>],
    [name |-> "accommodations",     alts |-> << <<"#", "accommodations?">> >>],
    [name |-> "zimmerzahl_label",   alts |-> << <<"zimmerzahl:", "#">> >>],
    [name |-> "anzahl_label",       alts |-> << <<"anzahl", "zimmer:", "#">> >>],
    [name |-> "number_label",       alts |-> << <<"number", "of", "rooms:", "#">> >>],
    [name |-> "rooms_label",        alts |-> << <<"rooms:", "#">> >>],
    [name |-> "verfuegbar",         alts |-> << <<"#", "zimmer", "verfügbar">> >>],
    [name |-> "available",          alts |-> << <<"#", "rooms?", "available">> >>]
>>

(***************************************************************************)
(* The word tokens of the vocabulary.  Full[t]: the fragments that match   *)
(* the whole token t; Prefix[t]: those that match a start of t (a pattern  *)
(* ends inside the token); Suffix[t]: those that match an end of t (a      *)
(* pattern begins inside the token).                                       *)
(***************************************************************************)
Words == {"zimmer", "suiten", "rooms", "rooms:", "and", "suites", "insgesamt",
          "hotelzimmer", "baujahr", "willkommen"}

Full ==
    ("zimmer" :> {"zimmer"}) @@ ("suiten" :> {"suiten"})
    @@ ("rooms" :> {"rooms?"}) @@ ("rooms:" :> {"rooms:"})
    @@ ("and" :> {"and"}) @@ ("suites" :> {"suites?"})
    @@ ("insgesamt" :> {"insgesamt"}) @@ ("hotelzimmer" :> {"hotelzimmer"})
    @@ ("baujahr" :> {}) @@ ("willkommen" :> {})

Prefix ==
    ("zimmer" :> {"zimmer"}) @@ ("suiten" :> {"suiten", "suites?"})
    @@ ("rooms" :> {"rooms?"}) @@ ("rooms:" :> {"rooms:", "rooms?"})
    @@ ("and" :> {"and"}) @@ ("suites" :> {"suites?"})
    @@ ("insgesamt" :> {"insgesamt"}) @@ ("hotelzimmer" :> {"hotelzimmer", "hotel"})
    @@ ("baujahr" :> {}) @@ ("willkommen" :> {})

Suffix ==
    ("zimmer" :> {"zimmer"}) @@ ("suiten" :> {"suiten"})
    @@ ("rooms" :> {"rooms?"}) @@ ("rooms:" :> {"rooms:"})
    @@ ("and" :> {"and"}) @@ ("suites" :> {"suites?"})
    @@ ("insgesamt" :> {"insgesamt", "gesamt"}) @@ ("hotelzimmer" :> {"hotelzimmer", "zimmer"})
    @@ ("baujahr" :> {}) @@ ("willkommen" :> {})

Tokens == Words \cup DOMAIN IntOf

\* Does element e of an alternative of length n, at place k, match token tok?
ElemMatches(e, k, n, tok) ==
    IF e = "#" THEN IsDigits(tok)
    ELSE /\ tok \in Words
         /\ e \in (IF k = 1 THEN Suffix[tok] ELSE IF k = n THEN Prefix[tok] ELSE Full[tok])

\* Does alternative alt match the text from token i on?
AltMatchesAt(alt, text, i) ==
    /\ i + Len(alt) - 1 <= Len(text)
    /\ \A k \in 1..Len(alt) : ElemMatches(alt[k], k, Len(alt), text[i + k - 1])

\* The digits group 1 captures when alt matches at i.
Capture(alt, text, i) ==
    text[i + (CHOOSE k \in 1..Len(alt) : alt[k] = "#") - 1]

\* The first alternative of alts that matches at i, 0 if none does.
FirstAlt(alts, text, i) ==
    IF \E a \in 1..Len(alts) : AltMatchesAt(alts[a], text, i)
    THEN CHOOSE a \in 1..Len(alts) :
            /\ AltMatchesAt(alts[a], text, i)
            /\ \A b \in 1..(a - 1) : ~AltMatchesAt(alts[b], text, i)
    ELSE 0

\* re.findall(pattern, html_lower): the captures of the non-overlapping
\* matches, scanning from the left.
RECURSIVE FindAll(_, _, _)
FindAll(alts, text, i) ==
    IF i > Len(text) THEN <<>>
    ELSE LET a == FirstAlt(alts, text, i) IN
         IF a = 0 THEN FindAll(alts, text, i + 1)
         ELSE <<Capture(alts[a], text, i)>> \o FindAll(alts, text, i + Len(alts[a]))

\* The sanity check without its upper bound (a mutation).
InRangeNoUpperBound(n) == 1 <= n

\* The sanity check on one candidate.
InRange(n) == 1 <= n /\ n <= 500

\* The (room_count, pattern_name) pairs one pattern appends to found_counts.
RECURSIVE HitsOf(_, _)
HitsOf(matches, pattern_name) ==
    IF matches = <<>> THEN <<>>
    ELSE LET room_count == IntOf[Head(matches)] IN
         (IF InRange(room_count)
          THEN << [count |-> room_count, pattern |-> pattern_name] >>
          ELSE <<>>)
         \o HitsOf(Tail(matches), pattern_name)

\* found_counts after the loop over the first n patterns.
RECURSIVE FoundCounts(_, _)
FoundCounts(text, n) ==
    IF n = 0 THEN <<>>
    ELSE FoundCounts(text, n - 1)
         \o HitsOf(FindAll(patterns[n].alts, text, 1), patterns[n].name)

\* Counter(...): the distinct counts in order of first insertion.
RECURSIVE CounterKeys(_)
CounterKeys(found) ==
    IF found = <<>> THEN <<>>
    ELSE LET rest == CounterKeys(SubSeq(found, 1, Len(found) - 1))
             c == found[Len(found)].count
         IN IF \E j \in 1..Len(rest) : rest[j] = c THEN rest ELSE Append(rest, c)

Frequency(found, c) == Cardinality({j \in 1..Len(found) : found[j].count = c})

\* The first count found instead of the most frequent one (a mutation).
FirstFound(found) == found[1].count

\* counter.most_common(1)[0][0]: the first key, in insertion order, whose
\* frequency is the largest.
MostCommon(found) ==
    LET keys == CounterKeys(found)
        k == CHOOSE j \in 1..Len(keys) :
                /\ \A m \in 1..Len(keys) : Frequency(found, keys[m]) <= Frequency(found, keys[j])
                /\ \A m \in 1..(j - 1) : Frequency(found, keys[m]) < Frequency(found, keys[j])
    IN keys[k]

\* next(p for c, p in found_counts if c == most_common_count)
MatchingPattern(found, c) ==
    found[CHOOSE j \in 1..Len(found) :
            /\ found[j].count = c
            /\ \A m \in 1..(j - 1) : found[m].count # c].pattern

\* _extract_room_count_enhanced: (room_count, pattern_used) or (None, None).
\* The extractor returning its value without the name of the pattern (a
\* mutation).
ExtractRoomCountNoPattern(text) ==
    LET found_counts == FoundCounts(text, Len(patterns)) IN
    IF found_counts # <<>>
    THEN [room |-> SomeInt(MostCommon(found_counts)), pattern |-> None]
    ELSE [room |-> NoInt, pattern |-> None]

ExtractRoomCount(text) ==
    LET found_counts == FoundCounts(text, Len(patterns)) IN
    IF found_counts # <<>>
    THEN LET most_common_count == MostCommon(found_counts) IN
         [room |-> SomeInt(most_common_count),
          pattern |-> MatchingPattern(found_counts, most_common_count)]
    ELSE [room |-> NoInt, pattern |-> None]

(***************************************************************************)
(* Page texts of the model: concatenations of phrases.                     *)
(***************************************************************************)
Phrases == {
    <<"20", "zimmer">>, <<"5", "suiten">>, <<"baujahr", "1890", "25", "zimmer">>,
    <<"1890", "zimmer">>, <<"30", "rooms">>, <<"30", "rooms", "and", "suites">>,
    <<"insgesamt", "5", "hotelzimmer">>, <<"0", "zimmer">>,
    <<"500", "rooms:", "501">>, <<"willkommen">> }

TextsUpTo(n) == {Flatten(ps) : ps \in SeqsUpTo(Phrases, n)}

(***************************************************************************)
(* Check of the extractor as a pure function.                              *)
(***************************************************************************)
ExInit ==
    /\ exText \in TextsUpTo(MaxPhrases)
    /\ exResult = [room |-> NoInt, pattern |-> "pending"]

Extract ==
    /\ exResult.pattern = "pending"
    /\ exResult' = ExtractRoomCount(exText)
    /\ UNCHANGED <<exText, crawlVars, cbVars, moreVars, objVars, plVars, apiVars>>

(***************************************************************************)
(* The chatbot detector.  A page is parsed into its script elements (src   *)
(* attribute and inline body, "" when absent) and its iframe elements (src *)
(* attribute), each in document order, beside its text.  The strings of    *)
(* the model are listed with the signatures each contains as a substring   *)
(* (SigsIn) and with their str.lower() (Lower).                            *)
(***************************************************************************)
chatbot_signatures == <<
    [type |-> "zendesk",     sigs |-> <<"zdassets.com", "zendesk.com/embeddable">>],
    [type |-> "tidio",       sigs |-> <<"tidio.co/script", "tidiochat">>],
    [type |-> "intercom",    sigs |-> <<"widget.intercom.io", "intercom.io/widget">>],
    [type |-> "drift",       sigs |-> <<"js.driftt.com", "drift.com/include">>],
    [type |-> "livechat",    sigs |-> <<"cdn.livechatinc.com", "livechatinc.com/tracking">>],
    [type |-> "freshchat",   sigs |-> <<"wchat.freshchat.com", "freshchat.com/js">>],
    [type |-> "tawk.to",     sigs |-> <<"embed.tawk.to">>],
    [type |-> "chatbot.com", sigs |-> <<"chatbot.com/widget">>],
    [type |-> "hubspot",     sigs |-> <<"js.hs-scripts.com/conversations">>],
    [type |-> "crisp",       sigs |-> <<"client.crisp.chat">>],
    [type |-> "smartsupp",   sigs |-> <<"smartsupp.com/widget">>]
>>

widget_patterns == <<
    [type |-> "zendesk",   sigs |-> <<"window.$zopim", "ze('webwidget'", "zopim.livechat">>],
    [type |-> "tidio",     sigs |-> <<"tidiochatapi", "document.tidiochat">>],
    [type |-> "intercom",  sigs |-> <<"window.intercom(", "intercom('boot'">>],
    [type |-> "drift",     sigs |-> <<"drift.load(", "drift.on(">>],
    [type |-> "tawk.to",   sigs |-> <<"tawk_", "tawk.to">>],
    [type |-> "crisp",     sigs |-> <<"window.$crisp", "crisp.push">>],
    [type |-> "smartsupp", sigs |-> <<"smartsupp(", "_smartsupp">>]
>>

\* The src attribute values of the model.
SrcStrings == {
    "https://static.zdassets.com/ekr/snippet.js",
    "HTTPS://STATIC.ZDASSETS.COM/EKR/SNIPPET.JS",
    "https://widget.intercom.io/widget/abc123",
    "https://embed.tawk.to/5f1/default",
    "https://js.driftt.com/include/1/drift.com/include.js",
    "https://cdn.example.com/loader.js?a=embed.tawk.to&b=zdassets.com",
    "https://cdn.example.com/chatbot/app.js",
    "https://www.youtube.com/embed/xyz" }

\* The inline script bodies of the model, as written in the page.
BodyStrings == {
    "window.$zopim(function(){});",
    "window.Intercom('boot', {app_id: 'abc'});",
    "var Tawk_API=Tawk_API||{};",
    "window.$crisp=[]; Tawk_API={};",
    "s.src='https://static.zdassets.com/ekr/snippet.js';",
    "console.log('we do not have a chatbot');" }

\* str.lower() on the inline script bodies.
Lower ==
    ("window.$zopim(function(){});" :> "window.$zopim(function(){});")
    @@ ("window.Intercom('boot', {app_id: 'abc'});" :> "window.intercom('boot', {app_id: 'abc'});")
    @@ ("var Tawk_API=Tawk_API||{};" :> "var tawk_api=tawk_api||{};")
    @@ ("window.$crisp=[]; Tawk_API={};" :> "window.$crisp=[]; tawk_api={};")
    @@ ("s.src='https://static.zdassets.com/ekr/snippet.js';" :> "s.src='https://static.zdassets.com/ekr/snippet.js';")
    @@ ("console.log('we do not have a chatbot');" :> "console.log('we do not have a chatbot');")

\* The signatures of either table that each string contains as a substring.
SigsIn ==
    ("https://static.zdassets.com/ekr/snippet.js" :> {"zdassets.com"})
    @@ ("HTTPS://STATIC.ZDASSETS.COM/EKR/SNIPPET.JS" :> {})
    @@ ("https://widget.intercom.io/widget/abc123" :> {"widget.intercom.io", "intercom.io/widget"})
    @@ ("https://embed.tawk.to/5f1/default" :> {"embed.tawk.to", "tawk.to"})
    @@ ("https://js.driftt.com/include/1/drift.com/include.js" :> {"js.driftt.com", "drift.com/include"})
    @@ ("https://cdn.example.com/loader.js?a=embed.tawk.to&b=zdassets.com"
            :> {"embed.tawk.to", "tawk.to", "zdassets.com"})
    @@ ("https://cdn.example.com/chatbot/app.js" :> {})
    @@ ("https://www.youtube.com/embed/xyz" :> {})
    @@ ("window.$zopim(function(){});" :> {"window.$zopim"})
    @@ ("window.intercom('boot', {app_id: 'abc'});" :> {"window.intercom(", "intercom('boot'"})
    @@ ("var tawk_api=tawk_api||{};" :> {"tawk_"})
    @@ ("window.$crisp=[]; tawk_api={};" :> {"window.$crisp", "tawk_"})
    @@ ("s.src='https://static.zdassets.com/ekr/snippet.js';" :> {"zdassets.com"})
    @@ ("console.log('we do not have a chatbot');" :> {})

\* signature in s
Contains(s, signature) == signature \in SigsIn[s]

\* The loops "for chatbot_type, signatures in table.items(): for signature
\* in signatures: if signature in s": the first (vendor, signature) pair of
\* the table, in table order, that s contains; <<>> when there is none.
RECURSIVE FirstInSigs(_, _, _)
FirstInSigs(s, type, sigs) ==
    IF sigs = <<>> THEN <<>>
    ELSE IF Contains(s, Head(sigs))
         THEN << [chatbot_type |-> type, signature_found |-> Head(sigs)] >>
         ELSE FirstInSigs(s, type, Tail(sigs))

RECURSIVE FirstInTable(_, _)
FirstInTable(s, table) ==
    IF table = <<>> THEN <<>>
    ELSE LET m == FirstInSigs(s, Head(table).type, Head(table).sigs) IN
         IF m # <<>> THEN m ELSE FirstInTable(s, Tail(table))

\* The positive result without its detection method (a mutation).
FoundWithoutMethod(m, method) ==
    [has_chatbot |-> TRUE,
     chatbot_type |-> m[1].chatbot_type,
     signature_found |-> m[1].signature_found,
     detection_method |-> None]

Found(m, method) ==
    [has_chatbot |-> TRUE,
     chatbot_type |-> m[1].chatbot_type,
     signature_found |-> m[1].signature_found,
     detection_method |-> method]

\* STEP 1 with the loops exchanged: the vendors in table order, and for each
\* vendor the script elements in document order (a mutation).
ScanScriptSrcByVendor(scripts) ==
    LET holds(i, k) ==
            /\ scripts[k].src # ""
            /\ FirstInSigs(scripts[k].src, chatbot_signatures[i].type,
                           chatbot_signatures[i].sigs) # <<>>
        vendors == {i \in 1..Len(chatbot_signatures) : \E k \in 1..Len(scripts) : holds(i, k)}
    IN IF vendors = {} THEN <<>>
       ELSE LET i == CHOOSE v \in vendors : \A w \in vendors : v <= w
                k == CHOOSE e \in 1..Len(scripts) :
                        holds(i, e) /\ \A f \in 1..(e - 1) : ~holds(i, f)
            IN << Found(FirstInSigs(scripts[k].src, chatbot_signatures[i].type,
                                    chatbot_signatures[i].sigs), "script_src") >>

\* STEP 1: the script elements, in document order, by their src.
RECURSIVE ScanScriptSrc(_)
ScanScriptSrc(scripts) ==
    IF scripts = <<>> THEN <<>>
    ELSE LET src == Head(scripts).src
             m == IF src # "" THEN FirstInTable(src, chatbot_signatures) ELSE <<>>
         IN IF m # <<>> THEN <<Found(m, "script_src")>> ELSE ScanScriptSrc(Tail(scripts))

\* STEP 2: the script elements, in document order, by their lower-cased body.
RECURSIVE ScanInline(_)
ScanInline(scripts) ==
    IF scripts = <<>> THEN <<>>
    ELSE LET script_content == Head(scripts).body
             m == IF script_content # ""
                  THEN FirstInTable(Lower[script_content], widget_patterns)
                  ELSE <<>>
         IN IF m # <<>> THEN <<Found(m, "inline_script")>> ELSE ScanInline(Tail(scripts))

\* STEP 3: the iframe elements, in document order, by their src.
RECURSIVE ScanIframes(_)
ScanIframes(iframes) ==
    IF iframes = <<>> THEN <<>>
    ELSE LET src == Head(iframes)
             m == IF src # "" THEN FirstInTable(src, chatbot_signatures) ELSE <<>>
         IN IF m # <<>> THEN <<Found(m, "iframe_embed")>> ELSE ScanIframes(Tail(iframes))

NoChatbot == [has_chatbot |-> FALSE, chatbot_type |-> None, detection_method |-> None]

\* The detector with the three steps in another order (a mutation).
DetectIframeFirst(page) ==
    LET s3 == ScanIframes(page.iframes)
        s1 == ScanScriptSrc(page.scripts)
        s2 == ScanInline(page.scripts)
    IN IF s3 # <<>> THEN s3[1]
       ELSE IF s2 # <<>> THEN s2[1]
       ELSE IF s1 # <<>> THEN s1[1]
       ELSE NoChatbot

\* The detector of the earlier, loose design, which also fires on the word
\* chatbot in the text of the page (a mutation).
DetectLoose(page) ==
    LET s1 == ScanScriptSrc(page.scripts)
        s2 == ScanInline(page.scripts)
        s3 == ScanIframes(page.iframes)
    IN IF s1 # <<>> THEN s1[1]
       ELSE IF s2 # <<>> THEN s2[1]
       ELSE IF s3 # <<>> THEN s3[1]
       ELSE IF \E k \in 1..Len(page.text) : page.text[k] = "chatbot"
            THEN [has_chatbot |-> TRUE, chatbot_type |-> "unknown",
                  signature_found |-> "chatbot", detection_method |-> "text"]
       ELSE NoChatbot

\* _detect_chatbot_strict(html_content, soup)
DetectChatbotStrict(page) ==
    LET s1 == ScanScriptSrc(page.scripts)
        s2 == ScanInline(page.scripts)
        s3 == ScanIframes(page.iframes)
    IN IF s1 # <<>> THEN s1[1]
       ELSE IF s2 # <<>> THEN s2[1]
       ELSE IF s3 # <<>> THEN s3[1]
       ELSE NoChatbot

(***************************************************************************)
(* Pages of the detector check.                                            *)
(***************************************************************************)
ScriptElements == {
    [src |-> "https://static.zdassets.com/ekr/snippet.js", body |-> ""],
    [src |-> "HTTPS://STATIC.ZDASSETS.COM/EKR/SNIPPET.JS", body |-> ""],
    [src |-> "https://embed.tawk.to/5f1/default", body |-> "window.$zopim(function(){});"],
    [src |-> "https://cdn.example.com/loader.js?a=embed.tawk.to&b=zdassets.com", body |-> ""],
    [src |-> "https://cdn.example.com/chatbot/app.js", body |-> ""],
    [src |-> "", body |-> "window.Intercom('boot', {app_id: 'abc'});"],
    [src |-> "", body |-> "window.$crisp=[]; Tawk_API={};"],
    [src |-> "", body |-> "s.src='https://static.zdassets.com/ekr/snippet.js';"],
    [src |-> "", body |-> "console.log('we do not have a chatbot');"],
    [src |-> "", body |-> ""] }

IframeSrcs == {
    "",
    "https://www.youtube.com/embed/xyz",
    "https://js.driftt.com/include/1/drift.com/include.js",
    "https://widget.intercom.io/widget/abc123" }

ProseTexts == {
    <<>>,
    <<"we", "do", "not", "have", "a", "chatbot">>,
    <<"powered", "by", "zendesk", "zdassets.com", "and", "tawk.to">> }

CbPages ==
    [text : ProseTexts,
     scripts : SeqsUpTo(ScriptElements, MaxScripts),
     iframes : SeqsUpTo(IframeSrcs, MaxIframes)]

CbInit ==
    /\ cbPage \in CbPages
    /\ cbResult = [has_chatbot |-> FALSE, chatbot_type |-> None, detection_method |-> "pending"]

Detect ==
    /\ cbResult.detection_method = "pending"
    /\ cbResult' = DetectChatbotStrict(cbPage)
    /\ UNCHANGED <<cbPage, crawlVars, exVars, moreVars, objVars, plVars, apiVars>>

(***************************************************************************)
(* The crawl orchestrator.                                                 *)
(***************************************************************************)
\* WebsiteCrawler.__init__: self.timeout, at its default.
timeout == 30

\* The default of the parameter max_pages.
max_pages == 3

room_count_subpages == <<
    "/zimmer", "/rooms", "/unterkuenfte", "/accommodations", "/ueber-uns",
    "/about", "/hotel", "/das-hotel", "/the-hotel", "/ausstattung",
    "/facilities", "/unser-haus", "/our-house" >>

\* The URLs crawl is called with, each a sequence of segments; a segment
\* "/" is one slash character.
Urls == {
    <<"https://hotel.de">>,
    <<"https://hotel.de", "/">>,
    <<"https://hotel.de", "/de", "/", "/">> }

\* The URL as the string the code handles.
RECURSIVE UrlStr(_)
UrlStr(u) == IF u = <<>> THEN "" ELSE Head(u) \o UrlStr(Tail(u))

\* base_url.rstrip('/')
RECURSIVE Rstrip(_)
Rstrip(u) ==
    IF u # <<>> /\ u[Len(u)] = "/" THEN Rstrip(SubSeq(u, 1, Len(u) - 1)) ELSE u

\* subpage_url = base_url + subpage, for the k-th subpage of the list
SubpageUrl(u, k) == UrlStr(Rstrip(u)) \o room_count_subpages[k]

\* The DOM parts of the pages a crawl meets.
CrawlDoms == {
    [scripts |-> <<>>, iframes |-> <<>>],
    [scripts |-> << [src |-> "https://static.zdassets.com/ekr/snippet.js", body |-> ""] >>,
     iframes |-> <<>>],
    [scripts |-> << [src |-> "", body |-> "window.Intercom('boot', {app_id: 'abc'});"] >>,
     iframes |-> << "https://js.driftt.com/include/1/drift.com/include.js" >>],
    [scripts |-> << [src |-> "", body |-> "console.log('we do not have a chatbot');"] >>,
     iframes |-> << "https://js.driftt.com/include/1/drift.com/include.js" >>] }

CrawlTexts == TextsUpTo(CrawlPhrases)

CrawlPages ==
    {[text |-> t, scripts |-> d.scripts, iframes |-> d.iframes] : t \in CrawlTexts, d \in CrawlDoms}

\* The extractor on the texts of crawled pages, evaluated once per text.
RoomTable == [t \in CrawlTexts |-> ExtractRoomCount(t)]

\* The integers the patterns capture in a text, before the sanity check.
Candidates(text) ==
    UNION { {IntOf[m[j]] : j \in 1..Len(m)} :
            m \in {FindAll(patterns[n].alts, text, 1) : n \in 1..Len(patterns)} }

\* History: per text, whether a candidate lies in [1, 500] and whether one
\* lies outside.
HitTable ==
    [t \in CrawlTexts |->
        [inrange |-> \E c \in Candidates(t) : c >= 1 /\ c <= 500,
         rejected |-> \E c \in Candidates(t) : c < 1 \/ c > 500]]

\* The status codes a server answers with.
Statuses == {200, 204, 404, 500}

\* The exceptions of requests.exceptions that requests.get raises, all of
\* them subclasses of RequestException, with str(e).
RequestExceptions == {
    [kind |-> "Timeout", message |-> "Read timed out."],
    [kind |-> "ConnectionError", message |-> "Connection refused"],
    [kind |-> "TooManyRedirects", message |-> "Exceeded 30 redirects."] }

\* An exception that is no RequestException, raised in the body of crawl.
OtherExceptions == { [kind |-> "Exception", message |-> "unexpected failure"] }

\* response.raise_for_status(): does it raise HTTPError?
RaisesForStatus(status_code) == 400 <= status_code /\ status_code < 600

\* str(e) of the HTTPError that raise_for_status raises.
HttpErrorMessage(status_code) ==
    ToString(status_code)
    \o (IF status_code < 500 THEN " Client Error" ELSE " Server Error")

\* Python's truth value of an Optional[int].
Truthy(room) == room # NoInt /\ room[1] # 0

\* The keys of the report dict crawl builds, as far as the model carries
\* them: the features of the homepage besides the chatbot (title, languages,
\* forms, contact data, timing) are not part of it.
ReportKeys == {"url", "status_code", "has_chatbot", "chatbot_type", "chatbot_details",
               "room_count", "room_count_source"}

NoResult == [pending |-> TRUE]

\* History records: one fetch, with what the extractor saw on the page when
\* the page was parsed (its result, whether some candidate was in range and
\* whether some candidate was rejected by the sanity check).
FetchRecord(u, kind, status_code) ==
    [url |-> u, kind |-> kind, status_code |-> status_code,
     room |-> NoInt, pattern |-> None, inrange |-> FALSE, rejected |-> FALSE]

ParsedRecord(u, status_code, text) ==
    [url |-> u, kind |-> "response", status_code |-> status_code,
     room |-> RoomTable[text].room, pattern |-> RoomTable[text].pattern,
     inrange |-> HitTable[text].inrange, rejected |-> HitTable[text].rejected]

NoFetch == FetchRecord(None, "none", 0)

\* Does the for loop of _crawl_subpages_for_room_count end before another
\* subpage is fetched, with i subpages passed and checked pages counted?
LoopEnds(i, checked) == i >= Len(room_count_subpages) \/ checked >= max_pages

\* The loop ended without a value: (None, None) is returned and stored.
\* The end of the search also dropping what the detector found on the
\* homepage (a mutation).
ExhaustedDropsChatbot(a) ==
    [a EXCEPT !.room_count = NoInt, !.room_count_source = None,
              !.has_chatbot = FALSE, !.chatbot_type = None]

Exhausted(a) == [a EXCEPT !.room_count = NoInt, !.room_count_source = None]

CrawlInit ==
    /\ pc = "start"
    /\ url \in Urls
    /\ analysis = NoResult
    /\ idx = 0
    /\ pages_checked = 0
    /\ fetched = <<>>
    /\ last = NoFetch
    /\ home = NoFetch

\* The dict crawl returns with a partial report beside the error (a mutation).
ErrorResultPartial(u, error, error_message) ==
    [url |-> UrlStr(u), error |-> error, error_message |-> error_message,
     has_chatbot |-> FALSE, chatbot_type |-> None, room_count |-> NoInt,
     room_count_source |-> None]

\* The dict crawl returns from an except clause.
ErrorResult(u, error, error_message) ==
    [url |-> UrlStr(u), error |-> error, error_message |-> error_message]

\* crawl, lines 87-94 and 146-166: the request for the homepage raises, or
\* the status of the response makes raise_for_status raise.
HomeFetchFails ==
    /\ pc = "start"
    /\ \/ /\ last' = FetchRecord(UrlStr(url), "Timeout", 0)
          /\ analysis' = ErrorResult(url, "Timeout",
                "Request timed out after " \o ToString(timeout) \o " seconds")
       \/ \E e \in RequestExceptions :
             /\ e.kind # "Timeout"
             /\ last' = FetchRecord(UrlStr(url), e.kind, 0)
             /\ analysis' = ErrorResult(url, "RequestException", e.message)
       \/ \E status_code \in Statuses :
             /\ RaisesForStatus(status_code)
             /\ last' = FetchRecord(UrlStr(url), "HTTPError", status_code)
             /\ analysis' = ErrorResult(url, "RequestException", HttpErrorMessage(status_code))
       \/ \E e \in OtherExceptions :
             /\ last' = FetchRecord(UrlStr(url), e.kind, 0)
             /\ analysis' = ErrorResult(url, "UnexpectedException", e.message)
    /\ home' = last'
    /\ fetched' = Append(fetched, [url |-> UrlStr(url), value |-> NoInt])
    /\ pc' = "done"
    /\ UNCHANGED <<url, idx, pages_checked, exVars, cbVars, moreVars, objVars, plVars, apiVars>>

\* The report crawl assembles from the homepage, lines 101-129.
HomeReport(u, status_code, page) ==
    LET chatbot_info == DetectChatbotStrict(page)
        r == RoomTable[page.text]
    IN [url |-> UrlStr(u),
        status_code |-> status_code,
        has_chatbot |-> chatbot_info.has_chatbot,
        chatbot_type |-> chatbot_info.chatbot_type,
        chatbot_details |-> chatbot_info,
        room_count |-> r.room,
        room_count_source |-> IF Truthy(r.room) THEN r.pattern ELSE None]

\* The test of line 132 made always true (a mutation).
SearchAlways(room_count) == TRUE

\* Line 132: if not room_count
SearchSubpages(room_count) == ~Truthy(room_count)

\* crawl, lines 87-144: the homepage is fetched and analysed; the subpage
\* search starts when it gave no room count.
HomeFetched ==
    /\ pc = "start"
    /\ \E status_code \in Statuses, page \in CrawlPages :
          LET a == HomeReport(url, status_code, page) IN
          /\ ~RaisesForStatus(status_code)
          /\ fetched' = Append(fetched, [url |-> UrlStr(url), value |-> RoomTable[page.text].room])
          /\ home' = ParsedRecord(UrlStr(url), status_code, page.text)
          /\ last' = home'
          /\ IF ~SearchSubpages(a.room_count)
             THEN /\ analysis' = a
                  /\ pc' = "done"
             ELSE IF LoopEnds(0, 0)
             THEN /\ analysis' = Exhausted(a)
                  /\ pc' = "done"
             ELSE /\ analysis' = a
                  /\ pc' = "subpages"
    /\ UNCHANGED <<url, idx, pages_checked, exVars, cbVars, moreVars, objVars, plVars, apiVars>>

\* What follows an iteration of the loop that returned no value: the next
\* iteration, or the end of the loop and the return of (None, None).
Advance(checked) ==
    /\ idx' = idx + 1
    /\ pages_checked' = checked
    /\ IF LoopEnds(idx + 1, checked)
       THEN /\ analysis' = Exhausted(analysis)
            /\ pc' = "done"
       ELSE /\ analysis' = analysis
            /\ pc' = "subpages"

\* The exception of a subpage request leaving the loop and reaching the
\* except clause of crawl (a mutation).
SubpageFetchFatal ==
    /\ pc = "subpages"
    /\ \E e \in RequestExceptions :
          /\ last' = FetchRecord(SubpageUrl(url, idx + 1), e.kind, 0)
          /\ analysis' = ErrorResult(url, "RequestException", e.message)
    /\ fetched' = Append(fetched, [url |-> SubpageUrl(url, idx + 1), value |-> NoInt])
    /\ idx' = idx + 1
    /\ pc' = "done"
    /\ UNCHANGED <<url, pages_checked, home, exVars, cbVars, moreVars, objVars, plVars, apiVars>>

\* The failed request for a subpage issued a second time before the loop
\* moves on (a mutation).
SubpageFetchRetried ==
    /\ pc = "subpages"
    /\ \E e \in RequestExceptions :
          last' = FetchRecord(SubpageUrl(url, idx + 1), e.kind, 0)
    /\ fetched' = fetched \o << [url |-> SubpageUrl(url, idx + 1), value |-> NoInt],
                               [url |-> SubpageUrl(url, idx + 1), value |-> NoInt] >>
    /\ Advance(pages_checked)
    /\ UNCHANGED <<url, home, exVars, cbVars, moreVars, objVars, plVars, apiVars>>

\* Lines 189-195 and 210-212: the request for the subpage raises.
SubpageFetchFails ==
    /\ pc = "subpages"
    /\ \E e \in RequestExceptions :
          last' = FetchRecord(SubpageUrl(url, idx + 1), e.kind, 0)
    /\ fetched' = Append(fetched, [url |-> SubpageUrl(url, idx + 1), value |-> NoInt])
    /\ Advance(pages_checked)
    /\ UNCHANGED <<url, home, exVars, cbVars, moreVars, objVars, plVars, apiVars>>

\* Lines 198 and 207-208: the subpage answers with another status than 200.
SubpageNot200 ==
    /\ pc = "subpages"
    /\ \E status_code \in Statuses \ {200} :
          last' = FetchRecord(SubpageUrl(url, idx + 1), "response", status_code)
    /\ fetched' = Append(fetched, [url |-> SubpageUrl(url, idx + 1), value |-> NoInt])
    /\ Advance(pages_checked)
    /\ UNCHANGED <<url, home, exVars, cbVars, moreVars, objVars, plVars, apiVars>>

\* Lines 198-206: the subpage answers 200 and the extractor finds nothing.
SubpageNoValue ==
    /\ pc = "subpages"
    /\ \E page \in CrawlPages :
          /\ ~Truthy(RoomTable[page.text].room)
          /\ last' = ParsedRecord(SubpageUrl(url, idx + 1), 200, page.text)
          /\ fetched' = Append(fetched, [url |-> SubpageUrl(url, idx + 1),
                                         value |-> RoomTable[page.text].room])
    /\ Advance(pages_checked + 1)
    /\ UNCHANGED <<url, home, exVars, cbVars, moreVars, objVars, plVars, apiVars>>

\* The search going on after a subpage gave a value (a mutation).
SubpageFoundKeepsSearching ==
    /\ pc = "subpages"
    /\ \E page \in CrawlPages :
          LET room_count == RoomTable[page.text].room
              source == SubpageUrl(url, idx + 1)
          IN /\ Truthy(room_count)
             /\ last' = ParsedRecord(source, 200, page.text)
             /\ fetched' = Append(fetched, [url |-> source, value |-> room_count])
             /\ analysis' = [analysis EXCEPT
                    !.room_count = room_count, !.room_count_source = source]
    /\ idx' = idx + 1
    /\ pc' = IF LoopEnds(idx + 1, pages_checked) THEN "done" ELSE "subpages"
    /\ UNCHANGED <<url, pages_checked, home, exVars, cbVars, moreVars, objVars, plVars, apiVars>>

\* Lines 198-204 and 134-136: the subpage answers 200 and the extractor
\* finds a room count, which ends the search.
SubpageFound ==
    /\ pc = "subpages"
    /\ \E page \in CrawlPages :
          LET room_count == RoomTable[page.text].room
              source == SubpageUrl(url, idx + 1)
          IN /\ Truthy(room_count)
             /\ last' = ParsedRecord(source, 200, page.text)
             /\ fetched' = Append(fetched, [url |-> source, value |-> room_count])
             /\ analysis' = [analysis EXCEPT
                    !.room_count = room_count,
                    !.room_count_source = IF Truthy(room_count) THEN source ELSE None]
    /\ idx' = idx + 1
    /\ pc' = "done"
    /\ UNCHANGED <<url, pages_checked, home, exVars, cbVars, moreVars, objVars, plVars, apiVars>>

(***************************************************************************)
(* The language detector.  Of the parsed page it reads the lang attribute  *)
(* of the html element and the lang attributes of the meta elements, in    *)
(* document order; None stands for an attribute (or an element) that is    *)
(* absent.                                                                 *)
(***************************************************************************)
LangAttrs == {None, "", "de", "de-DE", "en-US", "fr"}

\* value[:2] for the attribute values of the model
First2 == [v \in LangAttrs \ {None} |->
              CASE v = "de-DE" -> "de"
                [] v = "en-US" -> "en"
                [] OTHER -> v]

LgPages == [html_lang : LangAttrs, metas : SeqsUpTo(LangAttrs, MaxMetas)]

\* list(set(xs)): the elements of xs without duplicates; the order of the
\* list is that of the iteration over a set of str, which depends on the
\* hashes of the run, so each order is a possible value.
ListOfSet(xs) ==
    LET S == {xs[i] : i \in 1..Len(xs)}
        n == Cardinality(S)
    IN {f \in [1..n -> S] : \A i, j \in 1..n : i # j => f[i] # f[j]}

\* Lines 327-337: the list languages before the return statement.
LanguagesFound(page) ==
    LET html == IF page.html_lang # None /\ page.html_lang # ""
                THEN << First2[page.html_lang] >>
                ELSE <<>>
        with_lang == SelectSeq(page.metas, LAMBDA v : v # None)
    IN html \o [i \in 1..Len(with_lang) |-> First2[with_lang[i]]]

\* The return statement without the default (a mutation).
DetectLanguagesNoDefault(page) == ListOfSet(LanguagesFound(page))

\* _detect_languages: the values it can return for the page.
DetectLanguages(page) ==
    IF LanguagesFound(page) # <<>>
    THEN ListOfSet(LanguagesFound(page))
    ELSE { <<"en">> }

LgInit ==
    /\ lgPage \in LgPages
    /\ lgResult = [returned |-> FALSE, languages |-> <<>>]

DetectLang ==
    /\ ~lgResult.returned
    /\ \E languages \in DetectLanguages(lgPage) :
          lgResult' = [returned |-> TRUE, languages |-> languages]
    /\ UNCHANGED <<lgPage, crawlVars, exVars, cbVars, ctVars, objVars, plVars, apiVars>>

(***************************************************************************)
(* The contact data.  html_content is a sequence of fragments separated by *)
(* markup in which no pattern matches; the tables give the matches         *)
(* re.findall returns inside each fragment.                                *)
(***************************************************************************)
ContactFragments == {
    "info@hotel.de", "mailto:info@hotel.de", "booking@hotel.de", "sales@hotel.de",
    "jobs@hotel.de", "+49 30 1234567", "tel:+49301234567", "www.facebook.com/hotel",
    "instagram.com/hotel", "willkommen" }

\* re.findall(email_pattern, fragment)
EmailsIn == [f \in ContactFragments |->
    CASE f \in {"info@hotel.de", "mailto:info@hotel.de"} -> << "info@hotel.de" >>
      [] f \in {"booking@hotel.de", "sales@hotel.de", "jobs@hotel.de"} -> << f >>
      [] OTHER -> <<>>]

\* re.findall(phone_pattern, fragment)
PhonesIn == [f \in ContactFragments |->
    CASE f = "+49 30 1234567" -> << "+49 30 1234567" >>
      [] f = "tel:+49301234567" -> << "+49301234567" >>
      [] OTHER -> <<>>]

\* The keys of social_patterns, in the order of the dict.
social_patterns == << "facebook", "instagram", "twitter", "linkedin" >>

\* re.findall(social_patterns[platform], fragment)
SocialIn(platform, f) ==
    CASE platform = "facebook" /\ f = "www.facebook.com/hotel" -> << "facebook.com/hotel" >>
      [] platform = "instagram" /\ f = "instagram.com/hotel" -> << "instagram.com/hotel" >>
      [] OTHER -> <<>>

ContactHtmls == SeqsUpTo(ContactFragments, MaxFragments)

\* re.findall over the whole of html_content, for a table of the matches
\* per fragment.
FindAllIn(table, html) == Flatten([i \in 1..Len(html) |-> table[html[i]]])

\* Lines 494-500: the list social_media after the loop over the platforms.
SocialMedia(html) ==
    LET matches(k) == Flatten([i \in 1..Len(html) |-> SocialIn(social_patterns[k], html[i])])
        links(k) == [j \in 1..Len(matches(k)) |-> "https://" \o matches(k)[j]]
    IN Flatten([k \in 1..Len(social_patterns) |-> links(k)])

\* social_media built with list(set(...)) like the other two lists (a
\* mutation).
FindContactInfoSocialSet(html) ==
    { [emails |-> emails, phones |-> phones, social_media |-> social_media] :
        emails \in ListOfSet(FindAllIn(EmailsIn, html)),
        phones \in ListOfSet(FindAllIn(PhonesIn, html)),
        social_media \in ListOfSet(SocialMedia(html)) }

\* _find_contact_info: the values it can return for html_content.
FindContactInfo(html) ==
    { [emails |-> emails, phones |-> phones, social_media |-> SocialMedia(html)] :
        emails \in ListOfSet(FindAllIn(EmailsIn, html)),
        phones \in ListOfSet(FindAllIn(PhonesIn, html)) }

CtInit ==
    /\ ctHtml \in ContactHtmls
    /\ ctResult = [returned |-> FALSE, contact |-> [emails |-> <<>>, phones |-> <<>>, social_media |-> <<>>]]

FindContact ==
    /\ ~ctResult.returned
    /\ \E contact \in FindContactInfo(ctHtml) :
          ctResult' = [returned |-> TRUE, contact |-> contact]
    /\ UNCHANGED <<ctHtml, crawlVars, exVars, cbVars, lgVars, objVars, plVars, apiVars>>

(***************************************************************************)
(* The other features crawl reads from the homepage.  The parsed page      *)
(* holds, each in document order: the texts of its title elements, its     *)
(* meta elements (attributes name, property, content and lang), its form   *)
(* elements with their input, textarea and select elements, the href       *)
(* attributes of its a elements and of its stylesheet link elements; None  *)
(* stands for an attribute that is absent.                                 *)
(***************************************************************************)
\* get_text(strip=True) of a title element
StripText(t) ==
    CASE t = " Hotel Post " -> "Hotel Post"
      [] OTHER -> t

\* _get_title
GetTitle(page) == IF page.titles # <<>> THEN StripText(page.titles[1]) ELSE ""

\* soup.find('meta', attrs={attr: value}): the first such meta element, as a
\* sequence of at most one element.
FindMeta(page, attr, value) ==
    LET hits == SelectSeq(page.metas, LAMBDA m : m[attr] = value)
    IN IF hits # <<>> THEN << hits[1] >> ELSE <<>>

\* tag.get(attr, ''), for the value None of an absent attribute
GetOrEmpty(v) == IF v = None THEN "" ELSE v

\* _get_meta_description
GetMetaDescription(page) ==
    LET by_name == FindMeta(page, "name", "description")
        meta_desc == IF by_name # <<>> THEN by_name
                     ELSE FindMeta(page, "property", "og:description")
    IN IF meta_desc # <<>> THEN GetOrEmpty(meta_desc[1].content) ELSE ""

\* str.upper() of a method attribute
Upper(v) ==
    CASE v = "post" -> "POST"
      [] v = "get" -> "GET"
      [] OTHER -> v

\* _find_lead_forms
FindLeadForms(page) ==
    LET input_data(i) == [type |-> IF i.type = None THEN i.tag ELSE i.type,
                          name |-> GetOrEmpty(i.name),
                          placeholder |-> GetOrEmpty(i.placeholder)]
        form_data(f) == [action |-> GetOrEmpty(f.action),
                         method |-> Upper(GetOrEmpty(f.method)),
                         inputs |-> [k \in 1..Len(f.inputs) |-> input_data(f.inputs[k])]]
        with_inputs == SelectSeq(page.forms, LAMBDA f : f.inputs # <<>>)
    IN [k \in 1..Len(with_inputs) |-> form_data(with_inputs[k])]

\* href.startswith('/') or href.startswith('#')
IsInternal(href) == href \in {"/zimmer", "/kontakt", "#top"}

\* _count_pages
CountPages(page) ==
    Cardinality({ page.links[k] : k \in { j \in 1..Len(page.links) :
                     page.links[j] # None /\ IsInternal(page.links[j]) } })

\* 'width=device-width' in content.lower()
DeviceWidthIn(content) ==
    content \in {"width=device-width, initial-scale=1", "Width=Device-Width"}

\* 'responsive' in href.lower()
ResponsiveIn(href) == href \in {"/css/Responsive.css", "/responsive.min.css"}

\* _check_mobile
CheckMobile(page) ==
    LET viewport == FindMeta(page, "name", "viewport")
    IN IF viewport # <<>> /\ DeviceWidthIn(GetOrEmpty(viewport[1].content))
       THEN TRUE
       ELSE \E k \in 1..Len(page.stylesheets) :
               ResponsiveIn(GetOrEmpty(page.stylesheets[k]))

\* What _detect_languages reads of the page.
LangAttrsOf(page) ==
    [html_lang |-> page.html_lang,
     metas |-> [k \in 1..Len(page.metas) |-> page.metas[k].lang]]

(***************************************************************************)
(* The crawler object and its crawls of a static site.  The attributes of  *)
(* the object are state shared by the crawls running on it; the locals of  *)
(* a call of crawl are per call.  The site answers every request for the   *)
(* same URL in the same way; what differs from request to request is the   *)
(* time the response takes.                                                *)
(***************************************************************************)
\* WebsiteCrawler.__init__: the attributes of the new object.
NewCrawler(t) ==
    [timeout |-> t,
     chatbot_signatures |-> chatbot_signatures,
     room_count_subpages |-> room_count_subpages]

\* Values of the constructor argument: below and above the timeout of the
\* subpage requests.
Timeouts == {5, 30}

\* Line 193: the timeout argument of the requests for subpages.
subpage_timeout == 10

\* response.elapsed of a request, in microseconds.
ElapsedMicros == {120400, 350900}

\* The crawls running on the object.
Slots == 1..MaxCrawls

\* The URLs crawl is called with; the last one has no scheme.
SiteUrls == << <<"https://hotel.de">>, <<"https://hotel.de", "/">>, <<"hotel.de">> >>

\* Does the URL start with a scheme?  Without one requests.get raises
\* MissingSchema, a RequestException, before it sends anything.
HasScheme(u) == u # <<>> /\ u[1] = "https://hotel.de"

MissingSchema(u) ==
    [kind |-> "MissingSchema",
     message |-> "Invalid URL '" \o UrlStr(u) \o "': No scheme supplied."]

PlainPage ==
    [text |-> <<"willkommen">>, scripts |-> <<>>, iframes |-> <<>>,
     html_lang |-> None, metas |-> <<>>, titles |-> <<>>, forms |-> <<>>,
     links |-> <<>>, stylesheets |-> <<>>, fragments |-> <<>>]

RichPage ==
    [text |-> <<"willkommen">>, scripts |-> <<>>, iframes |-> <<>>,
     html_lang |-> "de-DE",
     metas |-> << [name |-> "viewport", property |-> None,
                   content |-> "Width=Device-Width", lang |-> None],
                  [name |-> None, property |-> "og:description",
                   content |-> "Ihr Hotel in Tirol", lang |-> "de"] >>,
     titles |-> << " Hotel Post ", "Pension" >>,
     forms |-> << [action |-> None, method |-> "post",
                   inputs |-> << [tag |-> "input", type |-> "email", name |-> "email",
                                  placeholder |-> None],
                                 [tag |-> "textarea", type |-> None, name |-> None,
                                  placeholder |-> "Nachricht"] >>],
                  [action |-> "/suche", method |-> None, inputs |-> <<>>] >>,
     links |-> << "/zimmer", "#top", "https://booking.com", "/zimmer", None >>,
     stylesheets |-> << "/css/main.css" >>,
     fragments |-> << "info@hotel.de", "mailto:info@hotel.de",
                      "www.facebook.com/hotel", "instagram.com/hotel" >>]

\* A homepage with a room count, two languages, two addresses and two
\* phone numbers.
RoomsPage ==
    [RichPage EXCEPT
        !.text = <<"20", "zimmer">>,
        !.metas = << [name |-> "description", property |-> None,
                      content |-> None, lang |-> "en-US"] >>,
        !.fragments = << "booking@hotel.de", "info@hotel.de", "tel:+49301234567",
                         "+49 30 1234567", "www.facebook.com/hotel" >>]

Response(status_code, page) ==
    [kind |-> "response", status_code |-> status_code,
     final_url |-> "https://hotel.de/", page |-> page]

\* Homepages without a room count, homepages with one, and homepages whose
\* request fails.
ZendeskPage ==
    [PlainPage EXCEPT !.scripts =
        << [src |-> "https://static.zdassets.com/ekr/snippet.js", body |-> ""] >>]

HomesEndingCrawl ==
    { Response(200, RoomsPage),
      Response(404, PlainPage), Response(500, PlainPage) }
    \cup RequestExceptions \cup OtherExceptions

NotFound == Response(404, PlainPage)
Subpage(text) == Response(200, [PlainPage EXCEPT !.text = text])
Refused == [kind |-> "ConnectionError", message |-> "Connection refused"]

\* The answers of the site to the requests for the candidate subpages: all
\* without a room count; or the first refused, the second missing and the
\* third with a room count.
NoRoomsAnywhere == [k \in 1..Len(room_count_subpages) |-> Subpage(<<"willkommen">>)]
RoomsOnThird ==
    [k \in 1..Len(room_count_subpages) |->
        IF k = 1 THEN Refused ELSE IF k = 3 THEN Subpage(<<"30", "rooms">>) ELSE NotFound]

Webs ==
    { [home |-> Response(200, p), subs |-> a] :
         p \in {PlainPage, RichPage, ZendeskPage}, a \in {NoRoomsAnywhere, RoomsOnThird} }
    \cup { [home |-> h, subs |-> NoRoomsAnywhere] : h \in HomesEndingCrawl }

\* The locals of a call of crawl, with the history of its calls of
\* requests.get (URL and timeout argument).  The calls are numbered in the
\* order of their URLs in SiteUrls, which leaves out no combination of
\* calls.
StartTask(u) ==
    [pc |-> "start", url |-> u, idx |-> 0, pages_checked |-> 0,
     analysis |-> NoResult, requests |-> <<>>]

ObjInit ==
    /\ crawler \in { NewCrawler(t) : t \in Timeouts }
    /\ web \in Webs
    /\ task \in { [s \in Slots |-> StartTask(SiteUrls[f[s]])] :
                    f \in { g \in [Slots -> 1..Len(SiteUrls)] :
                              \A s \in Slots \ {1} : g[s - 1] <= g[s] } }

\* What requests.get returns or raises for the homepage.
HomeAnswer(w, u) == IF HasScheme(u) THEN w.home ELSE MissingSchema(u)

\* Lines 146-166: the dict the except clauses of crawl return.
HomeError(cr, u, o) ==
    IF o.kind = "Timeout"
    THEN ErrorResult(u, "Timeout",
            "Request timed out after " \o ToString(cr.timeout) \o " seconds")
    ELSE IF o.kind = "response"
    THEN ErrorResult(u, "RequestException", HttpErrorMessage(o.status_code))
    ELSE IF o.kind \in {"ConnectionError", "TooManyRedirects", "MissingSchema"}
    THEN ErrorResult(u, "RequestException", o.message)
    ELSE ErrorResult(u, "UnexpectedException", o.message)

HomeAnswerFails(o) == o.kind # "response" \/ RaisesForStatus(o.status_code)

\* Lines 101-129: the report of the homepage, for the time the response
\* took and the lists list(set(...)) gave.
SiteReport(u, o, micros, languages, contact) ==
    LET page == o.page
        chatbot_info == DetectChatbotStrict(page)
        r == RoomTable[page.text]
    IN [url |-> UrlStr(u),
        final_url |-> o.final_url,
        status_code |-> o.status_code,
        title |-> GetTitle(page),
        meta_description |-> GetMetaDescription(page),
        languages |-> languages,
        has_chatbot |-> chatbot_info.has_chatbot,
        chatbot_type |-> chatbot_info.chatbot_type,
        chatbot_details |-> chatbot_info,
        room_count |-> r.room,
        room_count_source |-> IF Truthy(r.room) THEN r.pattern ELSE None,
        lead_forms |-> FindLeadForms(page),
        pages_count |-> CountPages(page),
        mobile_responsive |-> CheckMobile(page),
        contact_info |-> contact,
        response_time_ms |-> micros \div 1000]

ObjLoopEnds(cr, i, checked) == i >= Len(cr.room_count_subpages) \/ checked >= max_pages

\* crawl up to the subpage search, lines 87-132.
HomeStep(cr, w, t, micros, languages, contact) ==
    LET o == HomeAnswer(w, t.url)
        request == [url |-> UrlStr(t.url), timeout |-> cr.timeout]
    IN IF HomeAnswerFails(o)
       THEN [t EXCEPT !.pc = "done", !.analysis = HomeError(cr, t.url, o),
                      !.requests = Append(@, request)]
       ELSE LET a == SiteReport(t.url, o, micros, languages, contact) IN
            IF ~SearchSubpages(a.room_count)
            THEN [t EXCEPT !.pc = "done", !.analysis = a, !.requests = Append(@, request)]
            ELSE IF ObjLoopEnds(cr, 0, 0)
            THEN [t EXCEPT !.pc = "done", !.analysis = Exhausted(a),
                           !.requests = Append(@, request)]
            ELSE [t EXCEPT !.pc = "subpages", !.analysis = a,
                           !.requests = Append(@, request)]

\* One iteration of the loop of _crawl_subpages_for_room_count, lines
\* 185-215, and what crawl does with the value it returns, lines 133-136.
SubpageStep(cr, w, t) ==
    LET k == t.idx + 1
        o == w.subs[k]
        subpage_url == UrlStr(Rstrip(t.url)) \o cr.room_count_subpages[k]
        request == [url |-> subpage_url, timeout |-> subpage_timeout]
        room_count == IF o.kind = "response" /\ o.status_code = 200
                      THEN RoomTable[o.page.text].room
                      ELSE NoInt
        checked == IF o.kind = "response" /\ o.status_code = 200 /\ ~Truthy(room_count)
                   THEN t.pages_checked + 1
                   ELSE t.pages_checked
    IN IF Truthy(room_count)
       THEN [t EXCEPT !.pc = "done", !.idx = k, !.requests = Append(@, request),
                      !.analysis = [@ EXCEPT !.room_count = room_count,
                                             !.room_count_source = subpage_url]]
       ELSE [t EXCEPT !.pc = IF ObjLoopEnds(cr, k, checked) THEN "done" ELSE "subpages",
                      !.idx = k, !.pages_checked = checked,
                      !.requests = Append(@, request),
                      !.analysis = IF ObjLoopEnds(cr, k, checked) THEN Exhausted(@) ELSE @]

\* A call of crawl fetches and analyses the homepage.
CrawlHome(s) ==
    /\ task[s].pc = "start"
    /\ \E micros \in ElapsedMicros :
          LET o == HomeAnswer(web, task[s].url) IN
          IF HomeAnswerFails(o)
          THEN task' = [task EXCEPT ![s] = HomeStep(crawler, web, task[s], micros, <<>>,
                           [emails |-> <<>>, phones |-> <<>>, social_media |-> <<>>])]
          ELSE \E languages \in DetectLanguages(LangAttrsOf(o.page)),
                  contact \in FindContactInfo(o.page.fragments) :
                  task' = [task EXCEPT ![s] =
                              HomeStep(crawler, web, task[s], micros, languages, contact)]
    /\ UNCHANGED <<crawler, web, crawlVars, exVars, cbVars, moreVars, plVars, apiVars>>

\* The subpage search keeping its timeout in the attribute of the object
\* (a mutation).
CrawlSubpageSetsTimeout(s) ==
    /\ task[s].pc = "subpages"
    /\ task' = [task EXCEPT ![s] = SubpageStep(crawler, web, task[s])]
    /\ crawler' = [crawler EXCEPT !.timeout = subpage_timeout]
    /\ UNCHANGED <<web, crawlVars, exVars, cbVars, moreVars, plVars, apiVars>>

\* A call of crawl fetches the next candidate subpage.
CrawlSubpage(s) ==
    /\ task[s].pc = "subpages"
    /\ task' = [task EXCEPT ![s] = SubpageStep(crawler, web, task[s])]
    /\ UNCHANGED <<crawler, web, crawlVars, exVars, cbVars, moreVars, plVars, apiVars>>

(***************************************************************************)
(* AnalysisPipeline.process (src/app/pipeline.py).  The four steps are     *)
(* calls into the crawler, the analyzer, the report generator and the CRM  *)
(* client; each call returns one of the values or raises one of the        *)
(* exceptions listed for it.  A dict is a record, the empty dict the empty *)
(* function; a number read from the analysis is [num |-> n], anything else *)
(* in its place [text |-> s].  The durations process measures are not      *)
(* carried.                                                                *)
(***************************************************************************)
EmptyDict == [k \in {} |-> 0]

\* d.get(key, default)
Get(d, key, default) == IF key \in DOMAIN d THEN d[key] ELSE default

\* A value that is no dict (None, a list, a string), and isinstance(v, dict).
NotADict == [not_a_dict |-> TRUE]

IsDict(v) == "not_a_dict" \notin DOMAIN v

\* analysis_id[:8]
First8(id) ==
    CASE id = "7f3c2a1e-5b0d-4c1a" -> "7f3c2a1e"
      [] id = "0d9b4c55-91e2-4f6b" -> "0d9b4c55"

\* The arguments of process; analysis_id None makes it draw a uuid4.
ProcessArgs ==
    [website_url : {"https://hotel.de"}, industry : {"hotel"},
     email : {"gast@hotel.de"}, company_name : {"Hotel Post", None},
     analysis_id : {"7f3c2a1e-5b0d-4c1a", None}]

Uuid4 == {"0d9b4c55-91e2-4f6b"}

output_dir == "/mnt/user-data/outputs"

\* What the call of self.crawler.crawl gives: a report, an error object, an
\* empty dict, a value that is no dict, or an exception.
CrawlOutcomes ==
    { [raises |-> FALSE, value |-> [url |-> "https://hotel.de", has_chatbot |-> TRUE,
                                   chatbot_type |-> "Zendesk Chat"]],
      [raises |-> FALSE, value |-> [url |-> "https://hotel.de", error |-> "Timeout",
                                   error_message |-> "Request timed out after 30 seconds"]],
      [raises |-> FALSE, value |-> EmptyDict],
      [raises |-> FALSE, value |-> NotADict],
      [raises |-> TRUE, type |-> "RuntimeError", message |-> "crawl failed"] }

\* What the call of self.analyzer.analyze gives.  The TypeError is that of
\* the call as written: it passes no company_name, which analyze requires.
AnalysisOutcomes ==
    { [raises |-> FALSE,
       value |-> [roi_calculation |-> [monthly_roi |-> [num |-> 2500],
                                       roi_multiplier |-> [num |-> 4],
                                       break_even_months |-> [num |-> 3]],
                  chatbot_priority |-> "HIGH"]],
      [raises |-> FALSE, value |-> [summary |-> "ok"]],
      [raises |-> FALSE, value |-> [roi_calculation |-> NotADict, chatbot_priority |-> "LOW"]],
      [raises |-> FALSE,
       value |-> [roi_calculation |-> [monthly_roi |-> [text |-> "2.500 EUR"]]]],
      [raises |-> FALSE, value |-> EmptyDict],
      [raises |-> FALSE, value |-> NotADict],
      [raises |-> TRUE, type |-> "TypeError",
       message |-> "analyze() missing 1 required positional argument: 'company_name'"],
      [raises |-> TRUE, type |-> "APIError", message |-> "rate limit"] }

\* What the call of self.pdf_generator.generate gives: the path it wrote
\* to, a path at which no file exists, None, or an exception.
PdfOutcomes ==
    { [raises |-> FALSE, path_given |-> TRUE, exists |-> TRUE],
      [raises |-> FALSE, path_given |-> TRUE, exists |-> FALSE],
      [raises |-> FALSE, path_given |-> FALSE, exists |-> FALSE],
      [raises |-> TRUE, type |-> "OSError", message |-> "No space left on device"] }

\* What the call of self.brevo_crm.save_lead gives.  The TypeError is that
\* of the call as written: it passes chatbot_type, which save_lead does not
\* take.
CrmOutcomes ==
    { [raises |-> FALSE, value |-> [status |-> "success", action |-> "created"]],
      [raises |-> FALSE, value |-> [status |-> "failed", error |-> "unauthorized"]],
      [raises |-> FALSE, value |-> NotADict],
      [raises |-> TRUE, type |-> "TypeError",
       message |-> "save_lead() got an unexpected keyword argument 'chatbot_type'"] }

\* Lines 206-225: the dict the except clause of process returns.
FailedResult(analysis_id, error_type, error_message) ==
    [status |-> "failed", error |-> error_message, error_type |-> error_type,
     traceback |-> "Traceback (most recent call last): " \o error_type,
     analysis_id |-> analysis_id]

\* Lines 185-204: the dict process returns after the four steps.
CompletedResult(l, crm_result) ==
    [status |-> "completed",
     analysis_id |-> l.analysis_id,
     report_path |-> l.generated_path,
     report_filename |-> l.report_filename,
     roi_monat |-> Get(l.roi_data, "monthly_roi", [num |-> 0]),
     roi_multiplier |-> Get(l.roi_data, "roi_multiplier", [num |-> 0]),
     break_even_months |-> Get(l.roi_data, "break_even_months", [num |-> 0]),
     chatbot_priority |-> Get(l.analysis_result, "chatbot_priority", "MEDIUM"),
     has_chatbot |-> Get(l.crawler_data, "has_chatbot", FALSE),
     chatbot_type |-> Get(l.crawler_data, "chatbot_type", ""),
     brevo_status |-> Get(crm_result, "status", "unknown")]

\* The locals of a call of process: its position, its arguments, the
\* values of the steps and, as history, the steps it has called and how each
\* ended: "ok", "raised" (the call raised) or "invalid" (it returned what
\* the step rejects).
StartProcess(args, uuid) ==
    [pc |-> "crawl", args |-> args,
     analysis_id |-> IF args.analysis_id = None THEN uuid ELSE args.analysis_id,
     crawler_data |-> EmptyDict, analysis_result |-> EmptyDict, roi_data |-> EmptyDict,
     report_filename |-> None, generated_path |-> None,
     result |-> NoResult, calls |-> <<>>, outcomes |-> <<>>]

\* The except clause of lines 206-225 is reached and process returns.
Fails(l, error_type, error_message) ==
    [l EXCEPT !.pc = "returned",
              !.result = FailedResult(l.analysis_id, error_type, error_message)]

PlInit ==
    \E args \in ProcessArgs, uuid \in Uuid4 : proc = StartProcess(args, uuid)

\* Step 1, lines 59-77: every failure of the crawl leaves an empty dict.
ProcessCrawl ==
    /\ proc.pc = "crawl"
    /\ \E o \in CrawlOutcomes :
          LET crawler_data == IF o.raises THEN EmptyDict
                              ELSE IF o.value = EmptyDict \/ ~IsDict(o.value) THEN EmptyDict
                              ELSE o.value
          IN proc' = [proc EXCEPT !.pc = "analysis", !.crawler_data = crawler_data,
                                  !.calls = Append(@, "crawl"),
                                  !.outcomes = Append(@,
                                      IF o.raises THEN "raised"
                                      ELSE IF crawler_data = EmptyDict THEN "invalid"
                                      ELSE "ok")]
    /\ UNCHANGED <<crawlVars, exVars, cbVars, moreVars, objVars, apiVars>>

\* The format of lines 113-114 applied to roi_data: it raises for a value
\* that is no number.
FormatRaises(roi_data) ==
    \E key \in {"monthly_roi", "roi_multiplier"} :
        key \in DOMAIN roi_data /\ "num" \notin DOMAIN roi_data[key]

\* The exception of the analysis step leaving process, with no outer except
\* clause to catch it (a mutation).
AfterAnalysisRaising(l, o) ==
    IF o.raises
    THEN [l EXCEPT !.pc = "returned", !.result = [raised |-> o.type]]
    ELSE IF ~IsDict(o.value) \/ o.value = EmptyDict
    THEN [l EXCEPT !.pc = "returned", !.result = [raised |-> "ValueError"]]
    ELSE LET roi == Get(o.value, "roi_calculation", EmptyDict)
             roi_data == IF IsDict(roi) THEN roi ELSE EmptyDict
         IN IF FormatRaises(roi_data)
            THEN [l EXCEPT !.pc = "returned", !.result = [raised |-> "ValueError"]]
            ELSE [l EXCEPT !.pc = "pdf", !.analysis_result = o.value, !.roi_data = roi_data]

\* What process does with the value of the analysis step, lines 94-115, as
\* the locals after it.
AfterAnalysis(l, o) ==
    IF o.raises
    THEN Fails(l, o.type, o.message)
    ELSE IF ~IsDict(o.value) \/ o.value = EmptyDict
    THEN Fails(l, "ValueError", "Analysis returned invalid data structure")
    ELSE LET roi == Get(o.value, "roi_calculation", EmptyDict)
             roi_data == IF IsDict(roi) THEN roi ELSE EmptyDict
         IN IF FormatRaises(roi_data)
            THEN Fails(l, "ValueError", "Unknown format code 'f' for object of type 'str'")
            ELSE [l EXCEPT !.pc = "pdf", !.analysis_result = o.value, !.roi_data = roi_data]

\* Step 2, lines 79-115.
ProcessAnalysis ==
    /\ proc.pc = "analysis"
    /\ \E o \in AnalysisOutcomes :
          proc' = [AfterAnalysis(proc, o) EXCEPT
                      !.calls = Append(@, "analysis"),
                      !.outcomes = Append(@,
                          IF o.raises THEN "raised"
                          ELSE IF ~IsDict(o.value) \/ o.value = EmptyDict THEN "invalid"
                          ELSE "ok")]
    /\ UNCHANGED <<crawlVars, exVars, cbVars, moreVars, objVars, apiVars>>

\* Step 3 going on to the CRM save whatever generate gave (a mutation).
ProcessPdfContinuing ==
    /\ proc.pc = "pdf"
    /\ \E o \in PdfOutcomes :
          LET report_filename == "chatpro_analyse_" \o First8(proc.analysis_id) \o ".html"
          IN proc' = [proc EXCEPT !.pc = "crm", !.calls = Append(@, "pdf"),
                         !.outcomes = Append(@,
                             IF o.raises THEN "raised"
                             ELSE IF ~o.path_given \/ ~o.exists THEN "invalid"
                             ELSE "ok"),
                         !.report_filename = report_filename,
                         !.generated_path = output_dir \o "/" \o report_filename]
    /\ UNCHANGED <<crawlVars, exVars, cbVars, moreVars, objVars, apiVars>>

\* Step 3, lines 117-144.
ProcessPdf ==
    /\ proc.pc = "pdf"
    /\ \E o \in PdfOutcomes :
          LET report_filename == "chatpro_analyse_" \o First8(proc.analysis_id) \o ".html"
              report_path == output_dir \o "/" \o report_filename
              l == [proc EXCEPT !.calls = Append(@, "pdf"),
                                !.outcomes = Append(@,
                                    IF o.raises THEN "raised"
                                    ELSE IF ~o.path_given \/ ~o.exists THEN "invalid"
                                    ELSE "ok"),
                                !.report_filename = report_filename]
          IN proc' = IF o.raises
                     THEN Fails(l, o.type, o.message)
                     ELSE IF ~o.path_given \/ ~o.exists
                     THEN Fails(l, "ValueError", "PDF file was not created")
                     ELSE [l EXCEPT !.pc = "crm", !.generated_path = report_path]
    /\ UNCHANGED <<crawlVars, exVars, cbVars, moreVars, objVars, apiVars>>

\* Step 4 without its own except clause: an exception of save_lead reaches
\* the except clause of process (a mutation).
ProcessCrmFailing ==
    /\ proc.pc = "crm"
    /\ \E o \in CrmOutcomes :
          LET crm_result == IF o.raises THEN [status |-> "error", error |-> o.message]
                            ELSE IF ~IsDict(o.value) THEN [status |-> "unknown"]
                            ELSE o.value
              l == [proc EXCEPT !.calls = Append(@, "crm"),
                                !.outcomes = Append(@,
                                    IF o.raises THEN "raised"
                                    ELSE IF Get(crm_result, "status", None) # "success"
                                    THEN "invalid"
                                    ELSE "ok")]
          IN proc' = IF o.raises THEN Fails(l, o.type, o.message)
                     ELSE [l EXCEPT !.pc = "returned",
                                    !.result = CompletedResult(proc, crm_result)]
    /\ UNCHANGED <<crawlVars, exVars, cbVars, moreVars, objVars, apiVars>>

\* Step 4 and the return, lines 146-204: no failure of the CRM save fails
\* the run.
ProcessCrm ==
    /\ proc.pc = "crm"
    /\ \E o \in CrmOutcomes :
          LET crm_result == IF o.raises THEN [status |-> "error", error |-> o.message]
                            ELSE IF ~IsDict(o.value) THEN [status |-> "unknown"]
                            ELSE o.value
          IN proc' = [proc EXCEPT !.pc = "returned", !.calls = Append(@, "crm"),
                                  !.outcomes = Append(@,
                                      IF o.raises THEN "raised"
                                      ELSE IF Get(crm_result, "status", None) # "success"
                                      THEN "invalid"
                                      ELSE "ok"),
                                  !.result = CompletedResult(proc, crm_result)]
    /\ UNCHANGED <<crawlVars, exVars, cbVars, moreVars, objVars, apiVars>>

(***************************************************************************)
(* The HTTP interface (src/app/main.py): the job table analysis_status,    *)
(* the background task of each job and the handlers of the requests.  The  *)
(* handlers run on the event loop and the background tasks on worker       *)
(* threads, so a task may write the table between two reads of a handler;  *)
(* a dict operation (an item assignment, update) is atomic.  An analysis   *)
(* id is an integer here; the timestamps of the entries are not carried.   *)
(***************************************************************************)
JobIds == 1..MaxJobs

\* The ids a request can name: those of the jobs and one no job ever has.
QueryIds == 0..MaxJobs

\* The bodies of POST /api/analyze.
AnalysisRequests ==
    [website_url : {"https://hotel.de", "hotel.de"}, industry : {"hotel"},
     email : {"gast@hotel.de"}, company_name : {"Hotel Post"}]

\* d.update(e)
Update(d, e) ==
    [k \in DOMAIN d \cup DOMAIN e |-> IF k \in DOMAIN e THEN e[k] ELSE d[k]]

\* The path of the report of a job, as process returns it.
ReportPathOf(id) == output_dir \o "/chatpro_analyse_" \o ToString(id) \o ".html"

\* What pipeline.process returns for the job: a completed or a failed
\* result.
ProcessResults(id) ==
    { [status |-> "completed", analysis_id |-> id, report_path |-> ReportPathOf(id)],
      [status |-> "failed", analysis_id |-> id, error |-> "PDF file was not created"] }

NoReply == [endpoint |-> "none"]
NoRequest == [pc |-> "idle"]

ApiInit ==
    /\ analysis_status = EmptyDict
    /\ bg = EmptyDict
    /\ report_request = NoRequest
    /\ reply = NoReply

\* analyze_website, lines 168-201: a new id, its entry, and the background
\* task scheduled.
AnalyzeWebsite ==
    /\ \E analysis_id \in JobIds, request \in AnalysisRequests :
          /\ analysis_id \notin DOMAIN analysis_status
          /\ \A j \in JobIds : j < analysis_id => j \in DOMAIN analysis_status
          /\ analysis_status' = Update(analysis_status,
                [i \in {analysis_id} |->
                    [status |-> "processing", website_url |-> request.website_url,
                     industry |-> request.industry, email |-> request.email,
                     company_name |-> request.company_name, progress |-> 0]])
          /\ bg' = Update(bg, [i \in {analysis_id} |-> "scheduled"])
          /\ reply' = [endpoint |-> "analyze", id |-> analysis_id, status_code |-> 200,
                       status |-> "processing"]
    /\ UNCHANGED <<report_request, crawlVars, exVars, cbVars, moreVars, objVars, plVars>>

\* process_analysis_task_sync, lines 96-99: the task starts.
TaskStart(id) ==
    /\ id \in DOMAIN bg
    /\ bg[id] = "scheduled"
    /\ analysis_status' = [analysis_status EXCEPT
          ![id] = Update(@, [status |-> "processing", progress |-> 10])]
    /\ bg' = [bg EXCEPT ![id] = "running"]
    /\ UNCHANGED <<report_request, reply, crawlVars, exVars, cbVars, moreVars, objVars, plVars>>

\* str(e) of the exceptions the call of the pipeline raises; it is empty
\* for an exception without arguments.
ExceptionMessages == {"Event loop is closed", ""}

\* The status of the result written to the entry without the fields that
\* go with it (a mutation).
TaskReturnsStatusOnly(id) ==
    /\ id \in DOMAIN bg
    /\ bg[id] = "running"
    /\ \E result \in ProcessResults(id) :
          analysis_status' = [analysis_status EXCEPT ![id] =
             Update(@, [status |-> result.status])]
    /\ bg' = [bg EXCEPT ![id] = "finished"]
    /\ UNCHANGED <<report_request, reply, crawlVars, exVars, cbVars, moreVars, objVars, plVars>>

\* Lines 104-133: the pipeline returns and the entry is updated from its
\* result.
TaskReturns(id) ==
    /\ id \in DOMAIN bg
    /\ bg[id] = "running"
    /\ \E result \in ProcessResults(id) :
          analysis_status' = [analysis_status EXCEPT ![id] =
             IF result.status = "completed"
             THEN Update(@, [status |-> "completed", progress |-> 100,
                             report_path |-> result.report_path,
                             report_url |-> "/api/report/" \o ToString(id),
                             data |-> Get(result, "analysis_data", EmptyDict)])
             ELSE Update(@, [status |-> "failed",
                             error |-> Get(result, "error", "Unknown error")])]
    /\ bg' = [bg EXCEPT ![id] = "finished"]
    /\ UNCHANGED <<report_request, reply, crawlVars, exVars, cbVars, moreVars, objVars, plVars>>

\* The except clause without its update of the entry (a mutation).
TaskRaisesUnrecorded(id) ==
    /\ id \in DOMAIN bg
    /\ bg[id] = "running"
    /\ bg' = [bg EXCEPT ![id] = "finished"]
    /\ UNCHANGED <<analysis_status, report_request, reply, crawlVars, exVars, cbVars,
                   moreVars, objVars, plVars>>

\* Lines 135-141: the call of the pipeline raises.
TaskRaises(id) ==
    /\ id \in DOMAIN bg
    /\ bg[id] = "running"
    /\ \E message \in ExceptionMessages :
          analysis_status' = [analysis_status EXCEPT ![id] =
             Update(@, [status |-> "failed", error |-> message])]
    /\ bg' = [bg EXCEPT ![id] = "finished"]
    /\ UNCHANGED <<report_request, reply, crawlVars, exVars, cbVars, moreVars, objVars, plVars>>

\* get_analysis_status, lines 213-235.
GetAnalysisStatus(id) ==
    /\ reply' =
          IF id \notin DOMAIN analysis_status
          THEN [endpoint |-> "status", id |-> id, status_code |-> 404,
                detail |-> "Analysis ID not found"]
          ELSE LET status == analysis_status[id] IN
               [endpoint |-> "status", id |-> id, status_code |-> 200,
                status |-> status.status,
                report_url |-> Get(status, "report_url", None)]
    /\ UNCHANGED <<analysis_status, bg, report_request, crawlVars, exVars, cbVars,
                   moreVars, objVars, plVars>>

\* Is a report refused for an entry of this status?  The test as status ==
\* "processing", which lets a failed job through (a mutation).
RefusedUnlessProcessing(status) == status = "processing"

\* Line 254: status["status"] != "completed"
ReportRefused(status) == status # "completed"

\* get_report, lines 246-258: the id is looked up and the status tested.
\* The reply keeps, as history, the status the handler saw.
GetReportLookup(id) ==
    /\ report_request = NoRequest
    /\ IF id \notin DOMAIN analysis_status
       THEN /\ reply' = [endpoint |-> "report", id |-> id, status_code |-> 404,
                         detail |-> "Report not found", seen |-> "unknown"]
            /\ report_request' = report_request
       ELSE IF ReportRefused(analysis_status[id].status)
       THEN /\ reply' = [endpoint |-> "report", id |-> id, status_code |-> 400,
                         detail |-> "Report not ready yet. Current status: "
                                       \o analysis_status[id].status,
                         seen |-> analysis_status[id].status]
            /\ report_request' = report_request
       ELSE /\ report_request' = [pc |-> "lookup done", id |-> id,
                                  seen |-> analysis_status[id].status]
            /\ reply' = reply
    /\ UNCHANGED <<analysis_status, bg, crawlVars, exVars, cbVars, moreVars, objVars, plVars>>

\* get_report, lines 260-282: the path is read from the entry and the file
\* served if it exists on the disk.
GetReportServe ==
    /\ report_request # NoRequest
    /\ \E exists \in BOOLEAN :
          LET id == report_request.id
              report_path == Get(analysis_status[id], "report_path", None)
          IN reply' =
                IF report_path = None \/ ~exists
                THEN [endpoint |-> "report", id |-> id, status_code |-> 404,
                      detail |-> "Report file not found", seen |-> report_request.seen]
                ELSE [endpoint |-> "report", id |-> id, status_code |-> 200,
                      file |-> report_path, media_type |-> "text/html",
                      seen |-> report_request.seen]
    /\ report_request' = NoRequest
    /\ UNCHANGED <<analysis_status, bg, crawlVars, exVars, cbVars, moreVars, objVars, plVars>>

(***************************************************************************)
(* The specifications.  Spec is the crawl; SpecExtract and SpecDetect      *)
(* apply the extractor and the detector to the pages of their bounded      *)
(* input sets.                                                             *)
(***************************************************************************)
ExIdle == exText = <<>> /\ exResult = [room |-> NoInt, pattern |-> None]
CbIdle == cbPage = [text |-> <<>>, scripts |-> <<>>, iframes |-> <<>>] /\ cbResult = NoChatbot
CrawlIdle ==
    /\ pc = "idle" /\ url = <<>> /\ analysis = NoResult /\ idx = 0 /\ pages_checked = 0
    /\ fetched = <<>> /\ last = NoFetch /\ home = NoFetch

LgIdle == lgPage = [html_lang |-> None, metas |-> <<>>] /\ lgResult = [returned |-> FALSE, languages |-> <<>>]
CtIdle ==
    /\ ctHtml = <<>>
    /\ ctResult = [returned |-> FALSE, contact |-> [emails |-> <<>>, phones |-> <<>>, social_media |-> <<>>]]
ObjIdle ==
    /\ crawler = NewCrawler(timeout)
    /\ web = [home |-> NotFound, subs |-> <<>>]
    /\ task = <<>>
PlIdle == proc = [pc |-> "idle"]
ApiIdle ==
    /\ analysis_status = EmptyDict /\ bg = EmptyDict
    /\ report_request = NoRequest /\ reply = NoReply
MoreIdle == LgIdle /\ CtIdle /\ ObjIdle /\ PlIdle /\ ApiIdle

Init == CrawlInit /\ ExIdle /\ CbIdle /\ MoreIdle
Next ==
    \/ HomeFetchFails
    \/ HomeFetched
    \/ SubpageFetchFails
    \/ SubpageNot200
    \/ SubpageNoValue
    \/ SubpageFound
Spec == Init /\ [][Next]_vars

InitExtract == ExInit /\ CrawlIdle /\ CbIdle /\ MoreIdle
NextExtract == Extract
SpecExtract == InitExtract /\ [][NextExtract]_vars

InitDetect == CbInit /\ CrawlIdle /\ ExIdle /\ MoreIdle
NextDetect == Detect
SpecDetect == InitDetect /\ [][NextDetect]_vars

InitLanguages == LgInit /\ CrawlIdle /\ ExIdle /\ CbIdle /\ CtIdle /\ ObjIdle /\ PlIdle /\ ApiIdle
NextLanguages == DetectLang
SpecLanguages == InitLanguages /\ [][NextLanguages]_vars

InitContact == CtInit /\ CrawlIdle /\ ExIdle /\ CbIdle /\ LgIdle /\ ObjIdle /\ PlIdle /\ ApiIdle
NextContact == FindContact
SpecContact == InitContact /\ [][NextContact]_vars

InitCrawler == ObjInit /\ CrawlIdle /\ ExIdle /\ CbIdle /\ LgIdle /\ CtIdle /\ PlIdle /\ ApiIdle
NextCrawler ==
    \/ \E s \in Slots : CrawlHome(s)
    \/ \E s \in Slots : CrawlSubpage(s)
SpecCrawler == InitCrawler /\ [][NextCrawler]_vars

InitPipeline == PlInit /\ CrawlIdle /\ ExIdle /\ CbIdle /\ LgIdle /\ CtIdle /\ ObjIdle /\ ApiIdle
NextPipeline ==
    \/ ProcessCrawl
    \/ ProcessAnalysis
    \/ ProcessPdf
    \/ ProcessCrm
SpecPipeline == InitPipeline /\ [][NextPipeline]_vars

InitApi == ApiInit /\ CrawlIdle /\ ExIdle /\ CbIdle /\ LgIdle /\ CtIdle /\ ObjIdle /\ PlIdle
NextApi ==
    \/ AnalyzeWebsite
    \/ \E id \in JobIds : TaskStart(id)
    \/ \E id \in JobIds : TaskReturns(id)
    \/ \E id \in JobIds : TaskRaises(id)
    \/ \E id \in QueryIds : GetAnalysisStatus(id)
    \/ \E id \in QueryIds : GetReportLookup(id)
    \/ GetReportServe
SpecApi == InitApi /\ [][NextApi]_vars

\* The server runs every background task it scheduled (BackgroundTasks
\* after the response is sent), and the call of the pipeline in a running
\* task returns or raises.
FairApi ==
    \A id \in JobIds :
        /\ WF_vars(TaskStart(id))
        /\ WF_vars(TaskReturns(id) \/ TaskRaises(id))
SpecApiFair == SpecApi /\ FairApi

(***************************************************************************)
(* Properties.                                                             *)
(***************************************************************************)
\* crawl has returned a report, not an error object.
IsReport == pc = "done" /\ "error" \notin DOMAIN analysis

\* The request for the homepage raised, or its status was an error status.
HomeFailed == home.kind \notin {"none", "response"}

\* A fetch of a subpage that failed or answered with another status than 200.
SubpageFailed(r) ==
    \/ r.kind \in {"Timeout", "ConnectionError", "TooManyRedirects"}
    \/ r.kind = "response" /\ r.status_code # 200

\* C1: when the fetch of the homepage fails (a timeout, a connection
\* failure, an HTTP error status or any other exception), crawl returns an
\* error object with the error kind and message and none of the report
\* fields, and no subpage is fetched.
C1_HomeFailureGivesErrorOnly ==
    HomeFailed =>
        /\ pc = "done"
        /\ DOMAIN analysis = {"url", "error", "error_message"}
        /\ analysis.url = UrlStr(url)
        /\ analysis.error =
              (IF home.kind = "Timeout" THEN "Timeout"
               ELSE IF home.kind \in {"ConnectionError", "TooManyRedirects", "HTTPError"}
               THEN "RequestException"
               ELSE "UnexpectedException")
        /\ Len(fetched) = 1

C1_Witness ==
    /\ pc = "done"
    /\ home.kind = "HTTPError"
    /\ home.status_code = 404
    /\ analysis.error = "RequestException"
    /\ analysis.error_message = "404 Client Error"

\* C2: a subpage that answers with a non-200 status or whose fetch fails is
\* skipped: the result stays a report, the search moves on to the next
\* candidate, and when the list is used up the report has room_count None.
C2_SubpageFailureIsSkipped ==
    (Len(fetched) >= 2 /\ SubpageFailed(last)) =>
        /\ DOMAIN analysis = ReportKeys
        /\ last.url = fetched[Len(fetched)].url
        /\ idx = Len(fetched) - 1
        /\ \/ pc = "subpages" /\ idx < Len(room_count_subpages)
           \/ /\ pc = "done"
              /\ idx = Len(room_count_subpages)
              /\ analysis.room_count = NoInt
              /\ analysis.room_count_source = None

\* Every candidate of the list failed, and the crawl returned a report.
C2_Witness ==
    /\ pc = "done"
    /\ Len(fetched) = Len(room_count_subpages) + 1
    /\ pages_checked = 0
    /\ SubpageFailed(last)
    /\ last.kind = "Timeout"
    /\ DOMAIN analysis = ReportKeys
    /\ analysis.room_count = NoInt

\* C3: in a crawl at most max_pages = 3 subpage fetches are issued, whatever
\* the outcome of each attempt.
C3_AtMostCapSubpageFetches == Len(fetched) <= 1 + max_pages

\* C4: subpages are fetched only if the homepage yields no room count; when
\* the extractor finds a value on the homepage no subpage is fetched and the
\* report carries the value of the homepage.
C4_NoSubpageWhenHomeHasValue ==
    /\ (home.kind = "response" /\ home.room # NoInt) =>
          /\ pc = "done"
          /\ Len(fetched) = 1
          /\ analysis.room_count = home.room
    /\ Len(fetched) >= 2 => (home.kind = "response" /\ home.room = NoInt)

C4_Witness ==
    /\ pc = "done"
    /\ home.room = <<20>>
    /\ Len(fetched) = 1
    /\ analysis.room_count = <<20>>

\* C5: the candidates are attempted in the order of room_count_subpages, no
\* candidate is fetched after one that gave a value, and the value reported
\* from the search is that of the first candidate that gave one, with its
\* URL as the source.
C5_ListPriorityOrder ==
    /\ \A k \in 2..Len(fetched) :
          fetched[k].url = UrlStr(Rstrip(url)) \o room_count_subpages[k - 1]
    /\ \A k \in 2..(Len(fetched) - 1) : fetched[k].value = NoInt
    /\ (Len(fetched) >= 2 /\ fetched[Len(fetched)].value # NoInt) =>
          /\ pc = "done"
          /\ analysis.room_count = fetched[Len(fetched)].value
          /\ analysis.room_count_source = fetched[Len(fetched)].url
    /\ (IsReport /\ home.room = NoInt /\ analysis.room_count # NoInt) =>
          /\ Len(fetched) >= 2
          /\ analysis.room_count = fetched[Len(fetched)].value

\* The homepage has no match and /zimmer holds "30 rooms".
C5_Witness ==
    /\ pc = "done"
    /\ url = <<"https://hotel.de", "/">>
    /\ home.kind = "response"
    /\ home.room = NoInt
    /\ Len(fetched) = 2
    /\ analysis.room_count = <<30>>
    /\ analysis.room_count_source = "https://hotel.de/zimmer"

\* C6: in every report the room-count source names the page that supplied
\* the value: the homepage, the URL of the subpage, or None when the search
\* was exhausted.
C6_SourceRecordsPage ==
    IsReport =>
        analysis.room_count_source =
            (IF home.room # NoInt THEN UrlStr(url)
             ELSE IF analysis.room_count # NoInt THEN fetched[Len(fetched)].url
             ELSE None)

\* C7: after any crawl the reported room_count is None or an integer in
\* [1, 500]; on every page parsed the extractor gives None exactly when no
\* candidate lies in the range, and a value in the range otherwise.
C7_RoomCountInBounds ==
    /\ \A r \in {home, last} :
          /\ r.room = NoInt \/ (r.room[1] >= 1 /\ r.room[1] <= 500)
          /\ r.room = NoInt <=> ~r.inrange
    /\ IsReport =>
          \/ analysis.room_count = NoInt
          \/ analysis.room_count[1] >= 1 /\ analysis.room_count[1] <= 500

\* A page with the candidates 500 and 501 supplied the value 500.
C7_Witness ==
    /\ IsReport
    /\ last.rejected
    /\ last.inrange
    /\ last.room = <<500>>
    /\ analysis.room_count = <<500>>

\* The matches of every pattern on a text, in library order.
RECURSIVE AllMatches(_, _)
AllMatches(text, n) ==
    IF n = 0 THEN <<>>
    ELSE Append(AllMatches(text, n - 1), FindAll(patterns[n].alts, text, 1))

\* The number of hits of value v, over all patterns.
HitCount(h, v) ==
    Cardinality({p \in UNION {{<<n, j>> : j \in 1..Len(h[n])} : n \in 1..Len(h)} :
                    IntOf[h[p[1]][p[2]]] = v})

\* The first pattern of the library with a hit of value v.
FirstPattern(h, v) ==
    CHOOSE n \in 1..Len(h) :
        /\ \E j \in 1..Len(h[n]) : IntOf[h[n][j]] = v
        /\ \A m \in 1..(n - 1) : \A j \in 1..Len(h[m]) : IntOf[h[m][j]] # v

\* C8: the extractor returns the value with the most in-range hits over all
\* patterns; among the values that tie for the highest count, the one whose
\* first hit comes earliest in library pattern order; None without a hit.
C8_MostFrequentValueWins ==
    exResult.pattern # "pending" =>
        LET h == AllMatches(exText, Len(patterns))
            values == {v \in UNION {{IntOf[h[n][j]] : j \in 1..Len(h[n])} : n \in 1..Len(h)} :
                          v >= 1 /\ v <= 500}
        IN IF values = {} THEN exResult.room = NoInt
           ELSE \E v \in values :
                   /\ exResult.room = <<v>>
                   /\ \A w \in values :
                         /\ HitCount(h, w) <= HitCount(h, v)
                         /\ HitCount(h, w) = HitCount(h, v)
                               => FirstPattern(h, v) <= FirstPattern(h, w)

\* "20 Zimmer" twice and "5 Suiten" once resolve to 20.
C8_Witness ==
    /\ exText = <<"20", "zimmer", "5", "suiten", "20", "zimmer">>
    /\ exResult.room = <<20>>

\* The signatures of a table.
SigSet(table) ==
    UNION {{table[i].sigs[j] : j \in 1..Len(table[i].sigs)} : i \in 1..Len(table)}

\* The (vendor, signature) pairs of a table.
SigPairs(table) ==
    UNION {{<<table[i].type, table[i].sigs[j]>> : j \in 1..Len(table[i].sigs)} :
            i \in 1..Len(table)}

\* Structural evidence, per detection method.
SrcEvidence(page) ==
    {g \in SigSet(chatbot_signatures) :
        \E k \in 1..Len(page.scripts) :
            page.scripts[k].src # "" /\ g \in SigsIn[page.scripts[k].src]}

InlineEvidence(page) ==
    {g \in SigSet(widget_patterns) :
        \E k \in 1..Len(page.scripts) :
            page.scripts[k].body # "" /\ g \in SigsIn[Lower[page.scripts[k].body]]}

IframeEvidence(page) ==
    {g \in SigSet(chatbot_signatures) :
        \E k \in 1..Len(page.iframes) :
            page.iframes[k] # "" /\ g \in SigsIn[page.iframes[k]]}

Detected == cbResult.detection_method # "pending"

\* C9: the detector applies script-src, inline-script and iframe-src in this
\* order and returns at the first match: the method reported is the first
\* of the three with evidence on the page, and the vendor and signature
\* reported are a pair of that method's table found by that method.
C9_MethodPriority ==
    Detected =>
        /\ cbResult.detection_method =
              (IF SrcEvidence(cbPage) # {} THEN "script_src"
               ELSE IF InlineEvidence(cbPage) # {} THEN "inline_script"
               ELSE IF IframeEvidence(cbPage) # {} THEN "iframe_embed"
               ELSE None)
        /\ cbResult.has_chatbot = (cbResult.detection_method # None)
        /\ cbResult.has_chatbot =>
              /\ <<cbResult.chatbot_type, cbResult.signature_found>> \in
                    (IF cbResult.detection_method = "inline_script"
                     THEN SigPairs(widget_patterns) ELSE SigPairs(chatbot_signatures))
              /\ cbResult.signature_found \in
                    (IF cbResult.detection_method = "script_src" THEN SrcEvidence(cbPage)
                     ELSE IF cbResult.detection_method = "inline_script"
                     THEN InlineEvidence(cbPage)
                     ELSE IframeEvidence(cbPage))

\* One script element carries tawk.to in its src and zendesk in its body,
\* and an iframe carries drift: the script src wins.
C9_Witness ==
    /\ Detected
    /\ cbPage.scripts = << [src |-> "https://embed.tawk.to/5f1/default",
                            body |-> "window.$zopim(function(){});"] >>
    /\ cbPage.iframes = << "https://js.driftt.com/include/1/drift.com/include.js" >>
    /\ cbResult.chatbot_type = "tawk.to"
    /\ cbResult.detection_method = "script_src"

\* C10: without a signature in a script src, an inline script body or an
\* iframe src, the result is has_chatbot = False whatever the text says.
C10_NoEvidenceNoChatbot ==
    (/\ Detected
     /\ SrcEvidence(cbPage) = {}
     /\ InlineEvidence(cbPage) = {}
     /\ IframeEvidence(cbPage) = {}) =>
        /\ cbResult.has_chatbot = FALSE
        /\ cbResult.chatbot_type = None

\* The text and a script body speak of a chatbot, a script src has the word
\* in its path, and nothing is detected.
C10_Witness ==
    /\ Detected
    /\ cbPage.text = <<"we", "do", "not", "have", "a", "chatbot">>
    /\ cbPage.scripts = << [src |-> "https://cdn.example.com/chatbot/app.js", body |-> ""],
                           [src |-> "", body |-> "console.log('we do not have a chatbot');"] >>
    /\ cbResult.has_chatbot = FALSE

\* C11: within one crawl the network calls are strictly sequential and
\* nothing is retried: every request has returned or raised before the next
\* one is issued (each step issues at most one, and the outcome on record is
\* that of the latest), the requests are the homepage and then one per
\* iteration of the loop, and no URL is requested twice, also not after a
\* failure.
C11_SequentialNoRetry ==
    /\ \A j, k \in 1..Len(fetched) : j # k => fetched[j].url # fetched[k].url
    /\ fetched # <<>> =>
          /\ last.kind # "none"
          /\ last.url = fetched[Len(fetched)].url
          /\ fetched[1].url = UrlStr(url)
          /\ Len(fetched) = idx + 1
    /\ fetched = <<>> => (pc = "start" /\ last = NoFetch)

\* A crawl that went through the whole list after failures of several kinds.
C11_Witness ==
    /\ pc = "done"
    /\ Len(fetched) = Len(room_count_subpages) + 1
    /\ last.kind = "ConnectionError"
    /\ \A k \in 2..Len(fetched) : fetched[k].value = NoInt

\* Two calls of crawl that have returned, for the same URL.
SameCrawlTwice(s1, s2) ==
    /\ s1 # s2
    /\ task[s1].pc = "done"
    /\ task[s2].pc = "done"
    /\ task[s1].url = task[s2].url

\* The set of the elements of a list.
Elements(xs) == {xs[k] : k \in 1..Len(xs)}

\* A report without the time of the response and with the lists that come
\* from a set read as sets; an error object as it is.
Timeless(a) ==
    IF "error" \in DOMAIN a
    THEN a
    ELSE [a EXCEPT !.response_time_ms = 0,
                   !.languages = Elements(@),
                   !.contact_info = [emails |-> Elements(@.emails),
                                     phones |-> Elements(@.phones),
                                     social_media |-> @.social_media]]

\* C12 (as stated): two crawls of the same URL against unchanged, static
\* pages return identical reports in every field; no value of the report
\* depends on the timing or on the run.
C12_IdenticalReports ==
    \A s1, s2 \in Slots :
        SameCrawlTwice(s1, s2) => task[s1].analysis = task[s2].analysis

\* C12 (amended): two crawls of the same URL against unchanged, static pages
\* return reports that agree in every field but response_time_ms, the
\* measured time of the homepage response, the lists languages,
\* contact_info.emails and contact_info.phones agreeing as sets (their order
\* is that of the iteration over a set).
C12_IdenticalUpToTimeAndOrder ==
    \A s1, s2 \in Slots :
        SameCrawlTwice(s1, s2) => Timeless(task[s1].analysis) = Timeless(task[s2].analysis)

\* Two reports of the same homepage that differ in the time and in the order
\* of the languages and of the addresses.
C12_Witness ==
    /\ SameCrawlTwice(1, 2)
    /\ "error" \notin DOMAIN task[1].analysis
    /\ task[1].analysis.response_time_ms = 120
    /\ task[2].analysis.response_time_ms = 350
    /\ task[1].analysis.languages = <<"de", "en">>
    /\ task[2].analysis.languages = <<"en", "de">>
    /\ task[1].analysis.contact_info.emails # task[2].analysis.contact_info.emails
    /\ task[1].analysis.room_count = <<20>>

\* C13: a failed fetch of the homepage is classified into four distinct
\* kinds, so that a connection failure and an HTTP error status give
\* different error kinds in the result: the kind reported for an HTTP error
\* status is not the one a refused connection gives, and the other way
\* round.
C13_DistinctErrorKinds ==
    /\ home.kind = "HTTPError" =>
          analysis.error # HomeError(NewCrawler(timeout), url, Refused).error
    /\ home.kind = "ConnectionError" =>
          analysis.error # HomeError(NewCrawler(timeout), url, NotFound).error

\* C14: whatever timeout the crawler was constructed with, every request
\* for a subpage is made with a timeout strictly shorter than that of the
\* request for the homepage.
C14_SubpageTimeoutShorter ==
    \A s \in Slots :
        \A k \in 2..Len(task[s].requests) :
            task[s].requests[k].timeout < task[s].requests[1].timeout

\* The call of crawl for the URL running alone on the crawler, from its
\* start to its return: its locals at the return.
RECURSIVE SearchAlone(_, _, _)
SearchAlone(cr, w, t) ==
    IF t.pc = "subpages" THEN SearchAlone(cr, w, SubpageStep(cr, w, t)) ELSE t

CrawlAlone(cr, w, u) ==
    LET o == HomeAnswer(w, u)
        languages == IF HomeAnswerFails(o) THEN <<>>
                     ELSE CHOOSE l \in DetectLanguages(LangAttrsOf(o.page)) : TRUE
        contact == IF HomeAnswerFails(o)
                   THEN [emails |-> <<>>, phones |-> <<>>, social_media |-> <<>>]
                   ELSE CHOOSE c \in FindContactInfo(o.page.fragments) : TRUE
    IN SearchAlone(cr, w, HomeStep(cr, w, StartTask(u), 120400, languages, contact))

\* C15: no step of a crawl modifies the signature table, the list of
\* candidate subpages or the configured timeout of the crawler, and a crawl
\* keeps nothing from one request to the next: a call that has returned has
\* made the requests and returned the report (up to the time of the
\* response and the order of the lists read from sets) that the same call
\* makes and returns when it runs alone, whatever other calls ran before it
\* or between its steps.
C15_NoSharedState ==
    /\ [][crawler' = crawler]_vars
    /\ [](/\ crawler.chatbot_signatures = chatbot_signatures
          /\ crawler.room_count_subpages = room_count_subpages
          /\ \A s \in Slots :
                task[s].pc = "done" =>
                   LET alone == CrawlAlone(crawler, web, task[s].url) IN
                   /\ Timeless(task[s].analysis) = Timeless(alone.analysis)
                   /\ task[s].requests = alone.requests)

\* One call is in the middle of its subpage search while another call on
\* the same crawler, for another URL, has returned the room count of the
\* third subpage.
C15_Witness ==
    /\ task[1].pc = "subpages"
    /\ task[1].idx = 1
    /\ task[2].pc = "done"
    /\ task[2].url # task[1].url
    /\ Len(task[2].requests) = 4
    /\ task[2].analysis.room_count = <<30>>
    /\ task[2].analysis.room_count_source = "https://hotel.de/unterkuenfte"

\* C16: a crawl requested for a URL without a scheme requests the https://
\* form of the URL rather than failing on the URL as given.
C16_SchemeNormalized ==
    \A s \in Slots :
        (task[s].pc = "done" /\ ~HasScheme(task[s].url)) =>
            /\ task[s].requests[1].url = "https://" \o UrlStr(task[s].url)
            /\ ("error" \in DOMAIN task[s].analysis =>
                  task[s].analysis.error_message # MissingSchema(task[s].url).message)

\* The page gives a language signal: a non-empty lang attribute of the html
\* element, or a meta element with a lang attribute.
HasLanguageSignal(page) ==
    \/ page.html_lang \notin {None, ""}
    \/ \E k \in 1..Len(page.metas) : page.metas[k] # None

\* The codes the signals of the page give.
DetectedCodes(page) ==
    (IF page.html_lang \notin {None, ""} THEN {First2[page.html_lang]} ELSE {})
    \cup {First2[page.metas[k]] : k \in {j \in 1..Len(page.metas) : page.metas[j] # None}}

\* C17: the list _detect_languages returns is never empty: without a
\* language signal it is the one default element "en", with one it holds
\* the detected codes, each once.
C17_LanguagesNonEmpty ==
    lgResult.returned =>
        /\ Len(lgResult.languages) >= 1
        /\ \A i, j \in 1..Len(lgResult.languages) :
              i # j => lgResult.languages[i] # lgResult.languages[j]
        /\ ~HasLanguageSignal(lgPage) => lgResult.languages = <<"en">>
        /\ HasLanguageSignal(lgPage) => Elements(lgResult.languages) = DetectedCodes(lgPage)

\* An html element with an empty lang attribute and meta elements without
\* one: no signal, and the default is returned.
C17_Witness ==
    /\ lgResult.returned
    /\ lgPage.html_lang = ""
    /\ lgPage.metas = <<None, None>>
    /\ lgResult.languages = <<"en">>

\* C18: each category of the contact data (emails, phones, social links)
\* holds at most three entries.
C18_AtMostThreePerCategory ==
    ctResult.returned =>
        /\ Len(ctResult.contact.emails) <= 3
        /\ Len(ctResult.contact.phones) <= 3
        /\ Len(ctResult.contact.social_media) <= 3

\* C20: process never raises: whatever the four steps return or raise, it
\* returns a dict with the analysis_id of the run and a status that is
\* completed or failed, and a failed result carries the error (message and
\* type).
C20_ProcessNeverRaises ==
    /\ proc.pc \in {"crawl", "analysis", "pdf", "crm", "returned"}
    /\ proc.pc = "returned" =>
          /\ "raised" \notin DOMAIN proc.result
          /\ {"status", "analysis_id"} \subseteq DOMAIN proc.result
          /\ proc.result.analysis_id = proc.analysis_id
          /\ proc.result.analysis_id # None
          /\ proc.result.status \in {"completed", "failed"}
          /\ proc.result.status = "failed" =>
                /\ {"error", "error_type", "traceback"} \subseteq DOMAIN proc.result
                /\ proc.result.error # ""
    /\ proc.pc # "returned" => proc.result = NoResult

\* The crawl gave nothing usable, the analysis succeeded and the report
\* generator raised: process returned a failed result for the generated id.
C20_Witness ==
    /\ proc.pc = "returned"
    /\ proc.args.analysis_id = None
    /\ proc.calls = <<"crawl", "analysis", "pdf">>
    /\ proc.crawler_data = EmptyDict
    /\ proc.result.status = "failed"
    /\ proc.result.error_type = "OSError"
    /\ proc.result.analysis_id = "0d9b4c55-91e2-4f6b"

\* C19: GET /api/report/{analysis_id} serves a file only for an id whose
\* recorded status is completed: an unknown id is answered with 404, an
\* id that is processing or failed with 400, and whenever a file is served,
\* the job is in the table, its status is completed and the file is its
\* report; a request that got past the test of the status saw completed.
C19_ReportOnlyWhenCompleted ==
    /\ reply.endpoint = "report" =>
          /\ reply.seen = "unknown" => reply.status_code = 404
          /\ reply.seen \in {"processing", "failed"} => reply.status_code = 400
          /\ reply.status_code = 200 =>
                /\ reply.seen = "completed"
                /\ reply.id \in DOMAIN analysis_status
                /\ analysis_status[reply.id].status = "completed"
                /\ bg[reply.id] = "finished"
                /\ reply.file = analysis_status[reply.id].report_path
    /\ report_request # NoRequest =>
          /\ report_request.id \in DOMAIN analysis_status
          /\ analysis_status[report_request.id].status = "completed"

\* The report of a completed job is served while another job has failed.
C19_Witness ==
    /\ reply.endpoint = "report"
    /\ reply.status_code = 200
    /\ \E other \in DOMAIN analysis_status :
          other # reply.id /\ analysis_status[other].status = "failed"

\* The status of the jobs that have ended.
Ended == {"completed", "failed"}

\* C21: an analysis id created by POST /api/analyze starts in status
\* processing; if the server runs its background task and the call of the
\* pipeline returns or raises, the id eventually has status completed or
\* failed; and once it has one of these, its status never changes again.
C21_JobLifecycle ==
    /\ [][\A id \in JobIds :
            /\ (id \notin DOMAIN analysis_status /\ id \in DOMAIN analysis_status')
                   => analysis_status'[id].status = "processing"
            /\ (id \in DOMAIN analysis_status /\ analysis_status[id].status \in Ended)
                   => /\ id \in DOMAIN analysis_status'
                      /\ analysis_status'[id].status = analysis_status[id].status]_vars
    /\ \A id \in JobIds :
            (id \in DOMAIN analysis_status) ~>
                (id \in DOMAIN analysis_status /\ analysis_status[id].status \in Ended)

\* One job has ended completed and another failed because the call of the
\* pipeline raised, and requests went on after both.
C21_Witness ==
    /\ \E id \in DOMAIN analysis_status :
          analysis_status[id].status = "completed" /\ bg[id] = "finished"
    /\ \E id \in DOMAIN analysis_status :
          /\ analysis_status[id].status = "failed" /\ bg[id] = "finished"
          /\ analysis_status[id].error = "Event loop is closed"
    /\ reply.endpoint = "status"

\* How the step of this name ended in the call of process, None if the call
\* has not run it.
OutcomeOf(step) ==
    IF \E i \in 1..Len(proc.calls) : proc.calls[i] = step
    THEN proc.outcomes[CHOOSE i \in 1..Len(proc.calls) : proc.calls[i] = step]
    ELSE None

\* C22: process returns status completed if and only if the analysis step
\* and the report step both succeeded; so a run whose crawl raised or
\* whose CRM save failed is completed when those two succeeded, and a run
\* whose analysis or report step failed is never completed.
C22_CompletedIffAnalysisAndReport ==
    proc.pc = "returned" =>
        /\ proc.result.status = "completed"
              <=> (OutcomeOf("analysis") = "ok" /\ OutcomeOf("pdf") = "ok")
        /\ proc.result.status = "failed"
              => (OutcomeOf("analysis") # "ok" \/ OutcomeOf("pdf") # "ok")

\* A run returned completed although its crawl raised and its CRM save
\* raised.
C22_Witness ==
    /\ proc.pc = "returned"
    /\ proc.result.status = "completed"
    /\ OutcomeOf("crawl") = "raised"
    /\ OutcomeOf("crm") = "raised"

\* The steps of process in the order of the code.
StepOrder == <<"crawl", "analysis", "pdf", "crm">>

\* C23: process calls its steps in the order crawl, analysis, report
\* generation, CRM save, each at most once; the report is generated only
\* after the analysis succeeded and the lead saved only after the report
\* file was generated, so a run that ends failed has saved no lead.
C23_StepOrder ==
    /\ Len(proc.calls) <= Len(StepOrder)
    /\ proc.calls = SubSeq(StepOrder, 1, Len(proc.calls))
    /\ OutcomeOf("pdf") # None => OutcomeOf("analysis") = "ok"
    /\ OutcomeOf("crm") # None => OutcomeOf("pdf") = "ok"
    /\ (proc.pc = "returned" /\ proc.result.status = "failed") => OutcomeOf("crm") = None

\* A run failed in its report step: it called three steps and saved no lead.
C23_Witness ==
    /\ proc.pc = "returned"
    /\ proc.result.status = "failed"
    /\ proc.calls = <<"crawl", "analysis", "pdf">>
    /\ OutcomeOf("pdf") = "invalid"

\* A report without the two fields the subpage search writes.
HomepageFields(a) == [k \in DOMAIN a \ {"room_count", "room_count_source"} |-> a[k]]

C25_ValueIffSource ==
    IsReport => (analysis.room_count = NoInt <=> analysis.room_count_source = None)

\* A report with a value and a source from the homepage.
C25_Witness ==
    /\ IsReport
    /\ analysis.room_count # NoInt
    /\ analysis.room_count_source # None
    /\ idx = 0

\* C26: in every report crawl returns, has_chatbot is True if and only if
\* chatbot_type is not None, if and only if the detection method in
\* chatbot_details is not None, and has_chatbot and chatbot_type are those
\* in chatbot_details.
C26_ChatbotFieldsConsistent ==
    IsReport =>
        /\ analysis.has_chatbot <=> analysis.chatbot_type # None
        /\ analysis.has_chatbot <=> analysis.chatbot_details.detection_method # None
        /\ analysis.has_chatbot = analysis.chatbot_details.has_chatbot
        /\ analysis.chatbot_type = analysis.chatbot_details.chatbot_type

\* A report with a chatbot found in an inline script, returned after the
\* subpage search.
C26_Witness ==
    /\ IsReport
    /\ analysis.has_chatbot
    /\ analysis.chatbot_details.detection_method = "inline_script"
    /\ idx > 0

\* The vendors of a table, by their position, with a signature in string s.
VendorsIn(s, table) ==
    {i \in 1..Len(table) : \E j \in 1..Len(table[i].sigs) : table[i].sigs[j] \in SigsIn[s]}

\* The strings one detection method reads, in document order, and its table.
MethodStrings(page, method) ==
    IF method = "script_src" THEN [k \in 1..Len(page.scripts) |-> page.scripts[k].src]
    ELSE IF method = "inline_script"
    THEN [k \in 1..Len(page.scripts) |->
             IF page.scripts[k].body = "" THEN "" ELSE Lower[page.scripts[k].body]]
    ELSE page.iframes

MethodTable(method) ==
    IF method = "inline_script" THEN widget_patterns ELSE chatbot_signatures

C28_JobTableShape ==
    \A id \in DOMAIN analysis_status :
        LET entry == analysis_status[id] IN
        /\ entry.status \in {"processing", "completed", "failed"}
        /\ entry.status = "completed" =>
              /\ entry.progress = 100
              /\ "report_path" \in DOMAIN entry
              /\ entry.report_path = ReportPathOf(id)
              /\ "report_url" \in DOMAIN entry
              /\ entry.report_url = "/api/report/" \o ToString(id)
        /\ entry.status = "failed" =>
              /\ "error" \in DOMAIN entry
              /\ entry.error \in STRING
        /\ entry.status = "processing" =>
              /\ "report_path" \notin DOMAIN entry
              /\ "report_url" \notin DOMAIN entry
              /\ entry.progress \in {0, 10}

\* The table holds a completed entry and an entry whose task is running.
C28_Witness ==
    /\ \E id \in DOMAIN analysis_status :
          analysis_status[id].status = "completed" /\ analysis_status[id].progress = 100
    /\ \E id \in DOMAIN analysis_status :
          /\ analysis_status[id].status = "processing"
          /\ analysis_status[id].progress = 10
          /\ bg[id] = "running"

====
